---- MODULE Spec2Model ----
(***************************************************************************)
(* Velocity-banking payoff simulators and chunk optimizer.                 *)
(*                                                                         *)
(* Number representation.  The program computes on Python floats.  Here    *)
(* every amount of money is an integer number of units, UnitsPerCent units *)
(* making 0.01, and a product or quotient is rounded to the nearest unit   *)
(* (a float rounds the same operations to the nearest double).  The annual *)
(* rate is a whole percentage.  Comparisons of quotients are made exactly, *)
(* by cross-multiplication.                                                *)
(***************************************************************************)
EXTENDS Integers, Sequences, FiniteSets, TLC

\* Resolution of the amounts: units per 0.01.
UnitsPerCent == 4

\* 1.00 in units.
Dollar == 100 * UnitsPerCent

\* The payoff tolerance 0.01 of the loop tests, in units.
PayoffTolerance == UnitsPerCent

\* The 30-year cap of every simulation loop.
MaxMonths == 360

\* Turns that run any of the loops to its end: a loop whose test fails keeps
\* its locals, so turns beyond the last iteration change nothing.
LoopFuel == MaxMonths + 1

Min(a, b) == IF a <= b THEN a ELSE b

Max(a, b) == IF a >= b THEN a ELSE b

\* x / d for d > 0, rounded to the nearest unit.
DivRound(x, d) == (2 * x + d) \div (2 * d)

(***************************************************************************)
(* Inputs the calls are made with.                                         *)
(***************************************************************************)
\* Number of loans of the table below that the calls draw from.
NLoans == 8

LoanTable ==
  << [balance |-> 100 * Dollar,      rate |-> 12, payment |-> 10 * Dollar],
     [balance |-> 100 * Dollar,      rate |-> 0,  payment |-> 30 * Dollar],
     [balance |-> 20 * Dollar + 2,   rate |-> 0,  payment |-> 10 * Dollar],
     [balance |-> 100 * Dollar,      rate |-> 0,  payment |-> UnitsPerCent * 25],
     [balance |-> 100 * Dollar,      rate |-> 12, payment |-> Dollar \div 2],
     [balance |-> 100 * Dollar,      rate |-> 12, payment |-> Dollar],
     [balance |-> PayoffTolerance,   rate |-> 6,  payment |-> Dollar],
     [balance |-> 250 * Dollar,      rate |-> 6,  payment |-> 20 * Dollar],
     [balance |-> 60 * Dollar + 1,   rate |-> 12, payment |-> 7 * Dollar] >>

Loans == { LoanTable[i] : i \in 1..Min(NLoans, Len(LoanTable)) }

Chunks == { 0, 5 * Dollar, 20 * Dollar - 2, 125 * Dollar }

Frequencies == { "monthly", "quarterly", "annual" }

(***************************************************************************)
(* CalculationService                                                      *)
(***************************************************************************)
\* balance * monthly_rate, with monthly_rate = annual_rate / 12 / 100.
InterestPayment(balance, annual_rate) == DivRound(balance * annual_rate, 1200)

\* A loop test that admits one month more.
AmortizationContinuesOffByOne(s) ==
  s.balance > PayoffTolerance /\ s.month <= MaxMonths

\* The test of `while balance > 0.01 and month < 360`.
AmortizationContinues(s) ==
  s.balance > PayoffTolerance /\ s.month < MaxMonths

\* The locals of calculate_amortization before its loop.
AmortizationStart(a) ==
  [ balance |-> a.balance, month |-> 0, total_interest |-> 0,
    schedule |-> << >> ]

\* An iteration whose entry carries the interest as its principal and the
\* principal as its interest.
AmortizationBodySwapped(s, a) ==
  LET month == s.month + 1
      interest_payment == InterestPayment(s.balance, a.rate)
      principal_payment == Min(a.payment - interest_payment, s.balance)
      balance == s.balance - principal_payment
  IN  [ balance |-> balance,
        month |-> month,
        total_interest |-> s.total_interest + interest_payment,
        schedule |-> Append(s.schedule,
                       [ month |-> month,
                         payment |-> a.payment,
                         principal |-> interest_payment,
                         interest |-> principal_payment,
                         balance |-> Max(0, balance) ]) ]

\* One iteration of the loop of calculate_amortization.
AmortizationBody(s, a) ==
  LET month == s.month + 1
      interest_payment == InterestPayment(s.balance, a.rate)
      principal_payment == Min(a.payment - interest_payment, s.balance)
      balance == s.balance - principal_payment
  IN  [ balance |-> balance,
        month |-> month,
        total_interest |-> s.total_interest + interest_payment,
        schedule |-> Append(s.schedule,
                       [ month |-> month,
                         payment |-> a.payment,
                         principal |-> principal_payment,
                         interest |-> interest_payment,
                         balance |-> Max(0, balance) ]) ]

\* The AmortizationSchedule that calculate_amortization returns.
AmortizationResult(s, a) ==
  [ schedule |-> s.schedule,
    total_payments |-> s.total_interest + a.balance,
    total_interest |-> s.total_interest,
    months_to_payoff |-> s.month ]

\* A table with the quarterly and annual periods exchanged.
MonthsPerChunkSwapped(frequency) ==
  CASE frequency = "monthly" -> 1
    [] frequency = "quarterly" -> 12
    [] frequency = "annual" -> 3

\* months_per_chunk = {"monthly": 1, "quarterly": 3, "annual": 12}[frequency]
MonthsPerChunk(frequency) ==
  CASE frequency = "monthly" -> 1
    [] frequency = "quarterly" -> 3
    [] frequency = "annual" -> 12

\* A test that lets every month pass without its chunk.
IsChunkMonthNever(month, a) == FALSE

\* Whether the month applies a chunk: `month % months_per_chunk == 0 and
\* chunk_amount > 0`.
IsChunkMonth(month, a) ==
  month % MonthsPerChunk(a.frequency) = 0 /\ a.chunk > 0

\* A chunk that is skipped when it exceeds the balance.
ChunkToApplyNoOverpay(chunk_amount, balance) ==
  IF chunk_amount <= balance THEN chunk_amount ELSE 0

\* chunk_to_apply = min(chunk_amount, balance)
ChunkToApply(chunk_amount, balance) == Min(chunk_amount, balance)

\* A test against the chunk instead of the tolerance.
ClearedByChunkWrongOperand(balance, a) == balance <= a.chunk

\* The test `if balance <= 0.01` that follows a chunk.
ClearedByChunk(balance, a) == balance <= PayoffTolerance

\* A loop test without the 360-month cap.
VelocityContinuesUncapped(s) == s.balance > PayoffTolerance

\* The test of `while balance > 0.01 and month < 360`.
VelocityContinues(s) ==
  s.balance > PayoffTolerance /\ s.month < MaxMonths

\* The locals of calculate_velocity_scenario before its loop.
VelocityStart(a) ==
  [ balance |-> a.balance, month |-> 0, total_interest |-> 0,
    total_chunk_payments |-> 0, schedule |-> << >>, broke |-> FALSE ]

\* A regular payment whose interest is computed on the balance before the
\* chunk.
VelocityPaymentInterestFirst(s, a, month, balance, chunk_applied) ==
  LET interest_payment == InterestPayment(s.balance, a.rate)
      principal_payment == Min(a.payment - interest_payment, balance)
      after == balance - principal_payment
  IN  [ balance |-> after,
        month |-> month,
        total_interest |-> s.total_interest + interest_payment,
        total_chunk_payments |-> s.total_chunk_payments + chunk_applied,
        schedule |-> Append(s.schedule,
                       [ month |-> month,
                         payment |-> a.payment,
                         principal |-> principal_payment,
                         interest |-> interest_payment,
                         balance |-> Max(0, after),
                         chunk_applied |-> chunk_applied ]),
        broke |-> FALSE ]

\* A regular payment whose entry leaves the month's chunk out.
VelocityPaymentChunkUnrecorded(s, a, month, balance, chunk_applied) ==
  LET interest_payment == InterestPayment(balance, a.rate)
      principal_payment == Min(a.payment - interest_payment, balance)
      after == balance - principal_payment
  IN  [ balance |-> after,
        month |-> month,
        total_interest |-> s.total_interest + interest_payment,
        total_chunk_payments |-> s.total_chunk_payments + chunk_applied,
        schedule |-> Append(s.schedule,
                       [ month |-> month,
                         payment |-> a.payment,
                         principal |-> principal_payment,
                         interest |-> interest_payment,
                         balance |-> Max(0, after),
                         chunk_applied |-> 0 ]),
        broke |-> FALSE ]

\* The regular monthly payment of an iteration, on the balance the chunk
\* left.
VelocityPayment(s, a, month, balance, chunk_applied) ==
  LET interest_payment == InterestPayment(balance, a.rate)
      principal_payment == Min(a.payment - interest_payment, balance)
      after == balance - principal_payment
  IN  [ balance |-> after,
        month |-> month,
        total_interest |-> s.total_interest + interest_payment,
        total_chunk_payments |-> s.total_chunk_payments + chunk_applied,
        schedule |-> Append(s.schedule,
                       [ month |-> month,
                         payment |-> a.payment,
                         principal |-> principal_payment,
                         interest |-> interest_payment,
                         balance |-> Max(0, after),
                         chunk_applied |-> chunk_applied ]),
        broke |-> FALSE ]

\* A break that leaves the loop without a terminal entry.
VelocityBreakNoEntry(s, a, month, balance, chunk_to_apply) ==
  [ balance |-> balance,
    month |-> month,
    total_interest |-> s.total_interest,
    total_chunk_payments |-> s.total_chunk_payments + chunk_to_apply,
    schedule |-> s.schedule,
    broke |-> TRUE ]

\* The terminal entry and the break of an iteration whose chunk cleared the
\* balance.
VelocityBreak(s, a, month, balance, chunk_to_apply) ==
  [ balance |-> balance,
    month |-> month,
    total_interest |-> s.total_interest,
    total_chunk_payments |-> s.total_chunk_payments + chunk_to_apply,
    schedule |-> Append(s.schedule,
                   [ month |-> month,
                     payment |-> chunk_to_apply,
                     principal |-> chunk_to_apply,
                     interest |-> 0,
                     balance |-> 0,
                     chunk_applied |-> chunk_to_apply ]),
    broke |-> TRUE ]

\* One iteration of the loop of calculate_velocity_scenario.
VelocityBody(s, a) ==
  LET month == s.month + 1
  IN  IF IsChunkMonth(month, a)
      THEN LET chunk_to_apply == ChunkToApply(a.chunk, s.balance)
               balance == s.balance - chunk_to_apply
           IN  IF ClearedByChunk(balance, a)
               THEN VelocityBreak(s, a, month, balance, chunk_to_apply)
               ELSE VelocityPayment(s, a, month, balance, chunk_to_apply)
      ELSE VelocityPayment(s, a, month, s.balance, 0)

\* The dict that calculate_velocity_scenario returns.
VelocityResult(s) ==
  [ schedule |-> s.schedule,
    total_months |-> s.month,
    total_interest |-> s.total_interest,
    total_chunk_payments |-> s.total_chunk_payments ]

\* n turns of the loop (its test, then one iteration); the locals stay as
\* they are once the loop is over.  The test on half.month only makes TLC
\* compute the first half before the second.
RECURSIVE VelocityTurns(_, _, _)
VelocityTurns(s, a, n) ==
  IF n = 0 \/ s.broke \/ ~VelocityContinues(s) THEN s
  ELSE IF n = 1 THEN VelocityBody(s, a)
  ELSE LET half == VelocityTurns(s, a, n \div 2)
       IN  IF half.month >= 0 THEN VelocityTurns(half, a, n - n \div 2) ELSE half

VelocityLoop(s, a) == VelocityTurns(s, a, LoopFuel)

\* calculate_velocity_scenario(current_balance, interest_rate,
\* monthly_payment, chunk_amount, frequency)
CalculateVelocityScenario(a) == VelocityResult(VelocityLoop(VelocityStart(a), a))

\* n turns of the loop (its test, then one iteration); the locals stay as
\* they are once the loop is over.  The test on half.month only makes TLC
\* compute the first half before the second.
RECURSIVE AmortizationTurns(_, _, _)
AmortizationTurns(s, a, n) ==
  IF n = 0 \/ ~AmortizationContinues(s) THEN s
  ELSE IF n = 1 THEN AmortizationBody(s, a)
  ELSE LET half == AmortizationTurns(s, a, n \div 2)
       IN  IF half.month >= 0 THEN AmortizationTurns(half, a, n - n \div 2) ELSE half

AmortizationLoop(s, a) == AmortizationTurns(s, a, LoopFuel)

\* calculate_amortization(principal, annual_rate, monthly_payment)
CalculateAmortization(a) ==
  AmortizationResult(AmortizationLoop(AmortizationStart(a), a), a)

\* num / den * 100 for den > 0, in tenths of a percent, rounded to the
\* nearest tenth.
Percentage(num, den) ==
  LET n == num * 1000
  IN  (n \div den) + (IF 2 * (n % den) >= den THEN 1 ELSE 0)

\* A divisor that includes the principal.
SavingsDivisorPayments(standard, velocity) == standard.total_payments

\* The divisor of percentage_saved: standard_scenario.total_interest.
SavingsDivisor(standard, velocity) == standard.total_interest

\* calculate_savings(standard_scenario, velocity_scenario); the float
\* division by a zero total raises ZeroDivisionError.
CalculateSavings(standard, velocity) ==
  LET interest_saved == standard.total_interest - velocity.total_interest
      months_saved == standard.months_to_payoff - velocity.total_months
      divisor == SavingsDivisor(standard, velocity)
  IN  IF divisor = 0
      THEN [ raised |-> TRUE, interest_saved |-> 0, months_saved |-> 0,
             percentage_saved |-> 0 ]
      ELSE [ raised |-> FALSE, interest_saved |-> interest_saved,
             months_saved |-> months_saved,
             percentage_saved |-> Percentage(interest_saved, divisor) ]

(***************************************************************************)
(* OptimizationService._calculate_payoff_time                              *)
(***************************************************************************)
\* A loop test without the payoff tolerance.
PayoffContinuesToZero(s) ==
  s.balance > 0 /\ s.month < MaxMonths

\* The test of `while current_balance > 0.01 and month < max_months`.
PayoffContinues(s) ==
  s.balance > PayoffTolerance /\ s.month < MaxMonths

\* The locals of _calculate_payoff_time before its loop.
PayoffStart(a) ==
  [ balance |-> a.balance, month |-> 0, total_interest |-> 0,
    broke |-> FALSE ]

\* A table that gives every frequency the default period.
PayoffMonthsPerChunkDefault(frequency) == 1

\* months_per_chunk = {...}.get(frequency, 1)
PayoffMonthsPerChunk(frequency) ==
  CASE frequency = "monthly" -> 1
    [] frequency = "quarterly" -> 3
    [] frequency = "annual" -> 12
    [] OTHER -> 1

\* One iteration of the loop of _calculate_payoff_time.
PayoffBody(s, a) ==
  LET month == s.month + 1
      chunk_month ==
        month % PayoffMonthsPerChunk(a.frequency) = 0 /\ a.chunk > 0
      chunk_to_apply == IF chunk_month THEN Min(a.chunk, s.balance) ELSE 0
      current_balance == s.balance - chunk_to_apply
  IN  IF chunk_month /\ current_balance <= PayoffTolerance
      THEN [ balance |-> current_balance, month |-> month,
             total_interest |-> s.total_interest, broke |-> TRUE ]
      ELSE LET interest_payment ==
                 DivRound(current_balance * a.rate, 1200)
               principal_payment ==
                 Min(a.payment - interest_payment, current_balance)
           IN  [ balance |-> current_balance - principal_payment,
                 month |-> month,
                 total_interest |-> s.total_interest + interest_payment,
                 broke |-> FALSE ]

\* n turns of the loop (its test, then one iteration); the locals stay as
\* they are once the loop is over.  The test on half.month only makes TLC
\* compute the first half before the second.
RECURSIVE PayoffTurns(_, _, _)
PayoffTurns(s, a, n) ==
  IF n = 0 \/ s.broke \/ ~PayoffContinues(s) THEN s
  ELSE IF n = 1 THEN PayoffBody(s, a)
  ELSE LET half == PayoffTurns(s, a, n \div 2)
       IN  IF half.month >= 0 THEN PayoffTurns(half, a, n - n \div 2) ELSE half

PayoffLoop(s, a) == PayoffTurns(s, a, LoopFuel)

\* _calculate_payoff_time(chunk_amount, balance, interest_rate,
\* monthly_payment, frequency): the tuple (month, total_interest).
CalculatePayoffTime(a) ==
  LET s == PayoffLoop(PayoffStart(a), a)
  IN  [ months |-> s.month, interest |-> s.total_interest ]

(***************************************************************************)
(* OptimizationService: objective, search, post-processing                 *)
(***************************************************************************)
\* num = 50 of np.linspace.
NumGridPoints == 50

\* Number of rows of the constraints table that the calls draw from.
NConstraints == 8

\* OptimizationConstraints objects (min_cashflow_reserve and
\* max_debt_to_income keep their defaults and are read nowhere).
ConstraintsTable ==
  << [ min_chunk |-> 5 * Dollar, max_chunk |-> 54 * Dollar,
       available_loc |-> 60 * Dollar,
       monthly_income |-> 70 * Dollar, monthly_expenses |-> 45 * Dollar ],
     [ min_chunk |-> 12 * Dollar + 1, max_chunk |-> 12 * Dollar + 1,
       available_loc |-> 100 * Dollar,
       monthly_income |-> 70 * Dollar, monthly_expenses |-> 45 * Dollar ],
     [ min_chunk |-> 10 * Dollar, max_chunk |-> 30 * Dollar + UnitsPerCent - 1,
       available_loc |-> 32 * Dollar,
       monthly_income |-> 50 * Dollar, monthly_expenses |-> 45 * Dollar ],
     [ min_chunk |-> 0, max_chunk |-> 49 * Dollar,
       available_loc |-> 0,
       monthly_income |-> 40 * Dollar, monthly_expenses |-> 45 * Dollar ],
     [ min_chunk |-> 20 * Dollar, max_chunk |-> 150 * Dollar,
       available_loc |-> 500 * Dollar,
       monthly_income |-> 90 * Dollar, monthly_expenses |-> 20 * Dollar ],
     [ min_chunk |-> 40 * Dollar, max_chunk |-> 15 * Dollar,
       available_loc |-> 60 * Dollar,
       monthly_income |-> 70 * Dollar, monthly_expenses |-> 45 * Dollar ],
     [ min_chunk |-> 1, max_chunk |-> 1,
       available_loc |-> 60 * Dollar,
       monthly_income |-> 70 * Dollar, monthly_expenses |-> 45 * Dollar ],
     [ min_chunk |-> 18 * Dollar - 1, max_chunk |-> 18 * Dollar,
       available_loc |-> 60 * Dollar,
       monthly_income |-> 70 * Dollar, monthly_expenses |-> 45 * Dollar ],
     [ min_chunk |-> 3 * Dollar + 1, max_chunk |-> 9 * Dollar,
       available_loc |-> 10 * Dollar,
       monthly_income |-> 48 * Dollar, monthly_expenses |-> 45 * Dollar ] >>

ConstraintsSet ==
  { ConstraintsTable[i] : i \in 1..Min(NConstraints, Len(ConstraintsTable)) }

\* Loans the optimizer is called with.
OptLoans ==
  { [ balance |-> 100 * Dollar, rate |-> 12, payment |-> 10 * Dollar ],
    [ balance |-> 100 * Dollar, rate |-> 0,  payment |-> 30 * Dollar ],
    [ balance |-> 0,            rate |-> 6,  payment |-> 10 * Dollar ],
    [ balance |-> 0 - 50 * Dollar, rate |-> 6, payment |-> 10 * Dollar ] }

Goals == { "interest", "time", "balanced" }

Methods == { "differential_evolution", "grid_search", "scipy" }

OptFrequencies == { "monthly", "quarterly", "annual" }

\* round(x, 2) of the quotient num / den (den > 0) of two amounts: the
\* nearest multiple of 0.01, a tie going to the even hundredth.
RoundCents(num, den) ==
  LET d == den * UnitsPerCent
      q == num \div d
      r == num % d
  IN  IF 2 * r < d THEN q * UnitsPerCent
      ELSE IF 2 * r > d THEN (q + 1) * UnitsPerCent
      ELSE IF q % 2 = 0 THEN q * UnitsPerCent
      ELSE (q + 1) * UnitsPerCent

\* The i-th value (from 0) of np.linspace(min_chunk, max_chunk, num=50).
GridPoint(c, i) ==
  c.min_chunk + DivRound(i * (c.max_chunk - c.min_chunk), NumGridPoints - 1)

\* An objective whose time goal leaves out the interest term.
ObjectiveFunctionMonthsOnly(chunk, a) ==
  LET p == CalculatePayoffTime([ balance |-> a.balance, rate |-> a.rate,
                                 payment |-> a.payment, chunk |-> chunk,
                                 frequency |-> a.frequency ])
  IN  IF a.goal = "interest"
      THEN [ raised |-> FALSE, value |-> p.interest ]
      ELSE IF a.goal = "time"
      THEN [ raised |-> FALSE, value |-> p.months * (10000 * Dollar) ]
      ELSE IF a.balance = 0
      THEN [ raised |-> TRUE, value |-> 0 ]
      ELSE IF a.balance > 0
      THEN [ raised |-> FALSE,
             value |-> 540 * p.interest + a.balance * p.months ]
      ELSE [ raised |-> FALSE,
             value |-> 0 - 540 * p.interest - a.balance * p.months ]

\* An objective whose time goal is the interest alone.
ObjectiveFunctionInterestOnly(chunk, a) ==
  LET p == CalculatePayoffTime([ balance |-> a.balance, rate |-> a.rate,
                                 payment |-> a.payment, chunk |-> chunk,
                                 frequency |-> a.frequency ])
  IN  IF a.goal \in { "interest", "time" }
      THEN [ raised |-> FALSE, value |-> p.interest ]
      ELSE IF a.balance = 0
      THEN [ raised |-> TRUE, value |-> 0 ]
      ELSE IF a.balance > 0
      THEN [ raised |-> FALSE,
             value |-> 540 * p.interest + a.balance * p.months ]
      ELSE [ raised |-> FALSE,
             value |-> 0 - 540 * p.interest - a.balance * p.months ]

\* _objective_function(chunk_amount, balance, interest_rate,
\* monthly_payment, frequency, optimization_goal).  The value is scaled by
\* a positive factor that depends on the goal and the balance only (values
\* are only ever compared within one search): 1 for interest,
\* 10000.00 for time, 900 * |balance| for balanced (540 = 0.6 * 900,
\* 1 / 360 * 0.4 * 900 = 1).  The balanced goal
\* divides by the balance: a zero balance raises ZeroDivisionError.
ObjectiveFunction(chunk, a) ==
  LET p == CalculatePayoffTime([ balance |-> a.balance, rate |-> a.rate,
                                 payment |-> a.payment, chunk |-> chunk,
                                 frequency |-> a.frequency ])
  IN  IF a.goal = "interest"
      THEN [ raised |-> FALSE, value |-> p.interest ]
      ELSE IF a.goal = "time"
      THEN [ raised |-> FALSE,
             value |-> p.months * (10000 * Dollar) + p.interest ]
      ELSE IF a.balance = 0
      THEN [ raised |-> TRUE, value |-> 0 ]
      ELSE IF a.balance > 0
      THEN [ raised |-> FALSE,
             value |-> 540 * p.interest + a.balance * p.months ]
      ELSE [ raised |-> FALSE,
             value |-> 0 - 540 * p.interest - a.balance * p.months ]

\* A comparison that keeps the point of the highest value.
ImprovesReversed(s, value) == ~s.has_best \/ value > s.best_value

\* A comparison that lets a later point of equal value replace the best.
ImprovesOrTies(s, value) == ~s.has_best \/ value <= s.best_value

\* `if value < best_value` of the grid search; best_value starts at
\* float("inf").
Improves(s, value) == ~s.has_best \/ value < s.best_value

\* The locals of the grid search before its loop.
GridSearchStart(c) ==
  [ i |-> 0, best_chunk |-> c.min_chunk, has_best |-> FALSE, best_value |-> 0,
    evaluated |-> << >>, optimal_chunk |-> 0, convergence_success |-> FALSE ]

\* One iteration of `for chunk in chunk_values` whose objective call
\* returned `value`.
GridSearchBody(s, chunk, value) ==
  IF Improves(s, value)
  THEN [ s EXCEPT !.i = s.i + 1, !.evaluated = Append(s.evaluated, chunk),
                  !.best_chunk = chunk, !.best_value = value,
                  !.has_best = TRUE ]
  ELSE [ s EXCEPT !.i = s.i + 1, !.evaluated = Append(s.evaluated, chunk) ]

\* The points the library searches (differential_evolution, L-BFGS-B) can
\* return: some points of [min_chunk, max_chunk].
LibraryPoints(c) ==
  { GridPoint(c, i) : i \in { 0, 7, 24, 49 } }
    \cup { (c.min_chunk + c.max_chunk) \div 2 }

\* `loc_utilization = optimal_chunk / constraints.available_loc` and
\* `loc_utilization > 0.9`.  With available_loc = 0 a Python float raises
\* ZeroDivisionError and a numpy float gives inf, -inf or nan.
LocUtilization(chunk, available_loc, is_numpy) ==
  IF available_loc > 0
  THEN [ raised |-> FALSE, above |-> 10 * chunk > 9 * available_loc ]
  ELSE IF available_loc < 0
  THEN [ raised |-> FALSE, above |-> 10 * chunk < 9 * available_loc ]
  ELSE IF is_numpy
  THEN [ raised |-> FALSE, above |-> chunk > 0 ]
  ELSE [ raised |-> TRUE, above |-> FALSE ]

\* A score that applies only the largest of the penalties that are due.
ConvergedScoreLargestPenalty(optimal_chunk, c, above) ==
  LET chunk_range == c.max_chunk - c.min_chunk
      at_extreme ==
        /\ chunk_range > 0
        /\ \/ 10 * (optimal_chunk - c.min_chunk) < chunk_range
           \/ 10 * (optimal_chunk - c.min_chunk) > 9 * chunk_range
      monthly_cashflow == c.monthly_income - c.monthly_expenses
  IN  100 - Max(IF at_extreme THEN 20 ELSE 0,
                Max(IF optimal_chunk > monthly_cashflow * 3 THEN 30 ELSE 0,
                    IF above THEN 10 ELSE 0))

\* The score of _calculate_confidence_score once the search converged, in
\* hundredths, before the clamp.
ConvergedScore(optimal_chunk, c, above) ==
  LET chunk_range == c.max_chunk - c.min_chunk
      at_extreme ==
        /\ chunk_range > 0
        /\ \/ 10 * (optimal_chunk - c.min_chunk) < chunk_range
           \/ 10 * (optimal_chunk - c.min_chunk) > 9 * chunk_range
      monthly_cashflow == c.monthly_income - c.monthly_expenses
  IN  100 - (IF at_extreme THEN 20 ELSE 0)
          - (IF optimal_chunk > monthly_cashflow * 3 THEN 30 ELSE 0)
          - (IF above THEN 10 ELSE 0)

\* A score without the early `return 0.3`.
ConfidenceScoreNoEarlyReturn(optimal_chunk, c, convergence_success, is_numpy) ==
  LET u == LocUtilization(optimal_chunk, c.available_loc, is_numpy)
  IN  IF u.raised THEN [ raised |-> TRUE, value |-> 0 ]
      ELSE [ raised |-> FALSE,
             value |-> Max(0, Min(100,
                         ConvergedScore(optimal_chunk, c, u.above))) ]

\* _calculate_confidence_score(optimal_chunk, constraints,
\* convergence_success), in hundredths.
ConfidenceScore(optimal_chunk, c, convergence_success, is_numpy) ==
  IF ~convergence_success THEN [ raised |-> FALSE, value |-> 30 ]
  ELSE LET u == LocUtilization(optimal_chunk, c.available_loc, is_numpy)
       IN  IF u.raised THEN [ raised |-> TRUE, value |-> 0 ]
           ELSE [ raised |-> FALSE,
                  value |-> Max(0, Min(100,
                              ConvergedScore(optimal_chunk, c, u.above))) ]

\* A classification of the chunk as the result reports it.
StrategyTypeOfRounded(optimal_chunk, c) ==
  IF 10 * RoundCents(optimal_chunk, 1) < 3 * c.available_loc THEN "conservative"
  ELSE IF 10 * RoundCents(optimal_chunk, 1) > 7 * c.available_loc THEN "aggressive"
  ELSE "moderate"

\* The strategy type of optimize_chunk_amount.
StrategyType(optimal_chunk, c) ==
  IF 10 * optimal_chunk < 3 * c.available_loc THEN "conservative"
  ELSE IF 10 * optimal_chunk > 7 * c.available_loc THEN "aggressive"
  ELSE "moderate"

\* An OptimizationResult whose fields are not set.
NoValue ==
  [ optimal_chunk |-> 0, months_to_payoff |-> 0, total_interest |-> 0,
    interest_saved |-> 0, monthly_cashflow_impact |-> 0,
    confidence_score |-> 0, strategy_type |-> "", convergence_success |-> FALSE ]

\* optimal_chunk=round(optimal_chunk, 2) of the returned result.
ReportedChunk(optimal_chunk) == RoundCents(optimal_chunk, 1)

\* An interest saving read off the month counts.
InterestSavedFromMonths(baseline, optimal) ==
  (baseline.months - optimal.months) * Dollar

\* interest_saved = interest_baseline - interest_optimal
InterestSaved(baseline, optimal) == baseline.interest - optimal.interest

\* optimize_chunk_amount from "Calculate metrics for optimal solution" to
\* its return.
OptimizationResultOf(optimal_chunk, convergence_success, a) ==
  LET loan == [ balance |-> a.balance, rate |-> a.rate,
                payment |-> a.payment, frequency |-> a.frequency ]
      optimal == CalculatePayoffTime(loan @@ [ chunk |-> optimal_chunk ])
      baseline == CalculatePayoffTime(loan @@ [ chunk |-> 0 ])
      interest_saved == InterestSaved(baseline, optimal)
      \* optimal_chunk is a numpy float here: it comes from np.linspace or
      \* from result.x
      confidence == ConfidenceScore(optimal_chunk, a.constraints,
                                    convergence_success, TRUE)
  IN  [ op |-> "optimize", error |-> "",
        value |->
          [ optimal_chunk |-> ReportedChunk(optimal_chunk),
            months_to_payoff |-> optimal.months,
            total_interest |-> RoundCents(optimal.interest, 1),
            interest_saved |-> RoundCents(interest_saved, 1),
            monthly_cashflow_impact |-> RoundCents(optimal_chunk, 3),
            confidence_score |-> confidence.value,
            strategy_type |-> StrategyType(optimal_chunk, a.constraints),
            convergence_success |-> convergence_success ] ]

(***************************************************************************)
(* State: one call at a time runs on the two module-level services.        *)
(***************************************************************************)
VARIABLES
  svc,      \* the fields of the module-level OptimizationService instance
  pc,       \* where the running call is: "idle", the name of the loop it
            \* is in, or "returned"
  args,     \* the arguments of the running (or last) call
  locals,   \* the local variables of the running (or last) call
  result,   \* what the last call returned
  probe     \* history: the first grid-search call made with probe inputs,
            \* what it returned, and whether other calls followed

vars == << svc, pc, args, locals, result, probe >>

\* OptimizationService.__init__; the tolerance 1e-6 is in millionths.
NewService == [ tolerance |-> 1, max_iterations |-> 1000 ]

NoProbe == [ taken |-> FALSE, args |-> [ op |-> "none" ],
             result |-> [ op |-> "none" ], interleaved |-> FALSE ]

NoArgs == [ op |-> "none" ]

NoLocals == [ balance |-> 0, month |-> 0, total_interest |-> 0, broke |-> FALSE ]

NoResult == [ op |-> "none" ]

\* The services run one call at a time; a new call starts once the caller
\* has taken the last result.
CanCall == pc = "idle"

Init ==
  /\ svc = NewService
  /\ probe = NoProbe
  /\ pc = "idle"
  /\ args = NoArgs
  /\ locals = NoLocals
  /\ result = NoResult

\* The caller has the returned value (or the exception): the frame of the
\* call is gone.
TakeResult ==
  /\ pc = "returned"
  /\ pc' = "idle"
  /\ args' = NoArgs
  /\ locals' = NoLocals
  /\ result' = NoResult
  /\ UNCHANGED << svc, probe >>

\* calculate_amortization is called: lines up to the loop.
CallAmortization ==
  /\ CanCall
  /\ \E loan \in Loans :
       /\ args' = [ op |-> "amortization", balance |-> loan.balance,
                    rate |-> loan.rate, payment |-> loan.payment ]
       /\ locals' = AmortizationStart(args')
  /\ pc' = "amortization"
  /\ result' = NoResult
  /\ UNCHANGED << svc, probe >>

\* One iteration of `while balance > 0.01 and month < 360`.
AmortizationIteration ==
  /\ pc = "amortization"
  /\ AmortizationContinues(locals)
  /\ locals' = AmortizationBody(locals, args)
  /\ UNCHANGED << svc, pc, args, result, probe >>

\* The loop test fails: calculate_amortization returns.
AmortizationReturn ==
  /\ pc = "amortization"
  /\ ~AmortizationContinues(locals)
  /\ result' = [ op |-> "amortization",
                 value |-> AmortizationResult(locals, args) ]
  /\ pc' = "returned"
  /\ UNCHANGED << svc, args, locals, probe >>

\* calculate_velocity_scenario is called: lines up to the loop.
CallVelocity ==
  /\ CanCall
  /\ \E loan \in Loans, chunk \in Chunks, frequency \in Frequencies :
       /\ args' = [ op |-> "velocity", balance |-> loan.balance,
                    rate |-> loan.rate, payment |-> loan.payment,
                    chunk |-> chunk, frequency |-> frequency ]
       /\ locals' = VelocityStart(args')
  /\ pc' = "velocity"
  /\ result' = NoResult
  /\ UNCHANGED << svc, probe >>

\* One iteration of the loop of calculate_velocity_scenario, its break
\* included.
VelocityIteration ==
  /\ pc = "velocity"
  /\ ~locals.broke
  /\ VelocityContinues(locals)
  /\ locals' = VelocityBody(locals, args)
  /\ UNCHANGED << svc, pc, args, result, probe >>

\* The loop was left, by its test or by the break: the dict is returned.
VelocityReturn ==
  /\ pc = "velocity"
  /\ locals.broke \/ ~VelocityContinues(locals)
  /\ result' = [ op |-> "velocity", value |-> VelocityResult(locals) ]
  /\ pc' = "returned"
  /\ UNCHANGED << svc, args, locals, probe >>

\* _calculate_payoff_time is called: lines up to the loop.
CallPayoffTime ==
  /\ CanCall
  /\ \E loan \in Loans, chunk \in Chunks, frequency \in Frequencies :
       /\ args' = [ op |-> "payoff_time", balance |-> loan.balance,
                    rate |-> loan.rate, payment |-> loan.payment,
                    chunk |-> chunk, frequency |-> frequency ]
       /\ locals' = PayoffStart(args')
  /\ pc' = "payoff_time"
  /\ result' = NoResult
  /\ UNCHANGED << svc, probe >>

\* One iteration of the loop of _calculate_payoff_time, its break included.
PayoffIteration ==
  /\ pc = "payoff_time"
  /\ ~locals.broke
  /\ PayoffContinues(locals)
  /\ locals' = PayoffBody(locals, args)
  /\ UNCHANGED << svc, pc, args, result, probe >>

\* The loop was left: (month, total_interest) is returned.
PayoffReturn ==
  /\ pc = "payoff_time"
  /\ locals.broke \/ ~PayoffContinues(locals)
  /\ result' = [ op |-> "payoff_time",
                 value |-> [ months |-> locals.month,
                             interest |-> locals.total_interest ] ]
  /\ pc' = "returned"
  /\ UNCHANGED << svc, args, locals, probe >>

\* calculate_savings is called on the two scenarios of a loan.
CallSavings ==
  /\ CanCall
  /\ \E loan \in Loans, chunk \in Chunks, frequency \in Frequencies :
       /\ args' = [ op |-> "savings", balance |-> loan.balance,
                    rate |-> loan.rate, payment |-> loan.payment,
                    chunk |-> chunk, frequency |-> frequency ]
       /\ LET savings == CalculateSavings(CalculateAmortization(args'),
                                          CalculateVelocityScenario(args'))
          IN  result' = IF savings.raised
                        THEN [ op |-> "savings", error |-> "ZeroDivisionError" ]
                        ELSE [ op |-> "savings", error |-> "",
                               value |-> savings ]
  /\ pc' = "returned"
  /\ locals' = NoLocals
  /\ UNCHANGED << svc, probe >>

\* The larger of the two limits.
RecommendedChunkLargest(max_safe_chunk, repayable_chunk) ==
  Max(max_safe_chunk, repayable_chunk)

\* recommended_chunk = min(max_safe_chunk, repayable_chunk)
RecommendedChunk(max_safe_chunk, repayable_chunk) ==
  Min(max_safe_chunk, repayable_chunk)

\* The multipliers [0.5, 0.75, 1.0] as fractions.
Multipliers == << [ num |-> 1, den |-> 2 ], [ num |-> 3, den |-> 4 ],
                  [ num |-> 1, den |-> 1 ] >>

\* The scenario that calculate_optimal_chunk appends for a multiplier.
ChunkScenario(a, recommended_chunk, multiplier) ==
  LET test_chunk == DivRound(recommended_chunk * multiplier.num, multiplier.den)
      scenario == CalculateVelocityScenario(
                    [ op |-> "velocity", balance |-> a.balance, rate |-> a.rate,
                      payment |-> a.payment, chunk |-> test_chunk,
                      frequency |-> "monthly" ])
  IN  [ chunk_amount |-> test_chunk,
        months_to_payoff |-> scenario.total_months,
        total_interest |-> scenario.total_interest,
        monthly_cashflow_impact |-> DivRound(test_chunk, 3) ]

\* calculate_optimal_chunk(current_balance, interest_rate, monthly_payment,
\* available_loc, monthly_income, monthly_expenses)
CalculateOptimalChunk(a) ==
  LET monthly_net_cashflow == a.monthly_income - a.monthly_expenses
      max_safe_chunk == DivRound(a.available_loc * 8, 10)
      repayable_chunk == monthly_net_cashflow * 3
      recommended_chunk == RecommendedChunk(max_safe_chunk, repayable_chunk)
  IN  [ recommended_chunk |-> recommended_chunk,
        scenarios |-> [ i \in 1..Len(Multipliers) |->
                          ChunkScenario(a, recommended_chunk, Multipliers[i]) ],
        assumptions |-> [ available_loc |-> a.available_loc,
                          monthly_net_cashflow |-> monthly_net_cashflow,
                          repayment_period_months |-> 3 ] ]

\* Loans, credit lines and household budgets calculate_optimal_chunk is
\* called with.
ChunkLoans ==
  { [ balance |-> 100 * Dollar, rate |-> 12, payment |-> 10 * Dollar ],
    [ balance |-> 250 * Dollar, rate |-> 6,  payment |-> 20 * Dollar ],
    [ balance |-> 100 * Dollar, rate |-> 0,  payment |-> 30 * Dollar ] }

CreditLines == { 0 - 5 * Dollar, 0, 10 * Dollar, 60 * Dollar, 125 * Dollar }

Budgets ==
  { [ income |-> 70 * Dollar, expenses |-> 45 * Dollar ],
    [ income |-> 48 * Dollar, expenses |-> 45 * Dollar ],
    [ income |-> 45 * Dollar, expenses |-> 45 * Dollar ],
    [ income |-> 40 * Dollar, expenses |-> 45 * Dollar ] }

\* calculate_optimal_chunk is called and returns.
CallOptimalChunk ==
  /\ CanCall
  /\ \E loan \in ChunkLoans, available_loc \in CreditLines,
        budget \in Budgets :
       /\ args' = [ op |-> "optimal_chunk", balance |-> loan.balance,
                    rate |-> loan.rate, payment |-> loan.payment,
                    available_loc |-> available_loc,
                    monthly_income |-> budget.income,
                    monthly_expenses |-> budget.expenses ]
       /\ result' = [ op |-> "optimal_chunk",
                      value |-> CalculateOptimalChunk(args') ]
  /\ pc' = "returned"
  /\ locals' = NoLocals
  /\ UNCHANGED << svc, probe >>

Next ==
  \/ TakeResult
  \/ CallAmortization
  \/ AmortizationIteration
  \/ AmortizationReturn
  \/ CallVelocity
  \/ VelocityIteration
  \/ VelocityReturn
  \/ CallPayoffTime
  \/ PayoffIteration
  \/ PayoffReturn
  \/ CallSavings
  \/ CallOptimalChunk

Spec == Init /\ [][Next]_vars

(***************************************************************************)
(* Calls on the OptimizationService                                        *)
(***************************************************************************)
\* A call that lowers max_iterations on the instance.
ServiceAfterOptimizeTuned(s) == [ s EXCEPT !.max_iterations = 100 ]

\* The fields of the service after optimize_chunk_amount ran: the method
\* reads self.tolerance and self.max_iterations and assigns neither.
ServiceAfterOptimize(s) == s

\* The calls the history variable remembers.
IsProbe(a) ==
  /\ a.op = "optimize"
  /\ a.method = "grid_search"
  /\ a.goal = "balanced"
  /\ a.frequency = "monthly"
  /\ a.balance = 100 * Dollar
  /\ a.rate = 12
  /\ a.constraints \in { ConstraintsTable[1], ConstraintsTable[3] }

\* What a call that raised leaves to its caller.
Raised(op, error) == [ op |-> op, error |-> error, value |-> NoValue ]

\* The status the /chunk endpoint answers with: 200 with the result's
\* fields, 500 with the message of any exception.
EndpointStatus(r) == IF r.error = "" THEN 200 ELSE 500

\* optimize_chunk_amount is called: the bounds are built and the method is
\* dispatched on.
CallOptimize ==
  /\ CanCall
  /\ \E loan \in OptLoans, c \in ConstraintsSet, frequency \in OptFrequencies,
        goal \in Goals, method \in Methods :
       /\ args' = [ op |-> "optimize", balance |-> loan.balance,
                    rate |-> loan.rate, payment |-> loan.payment,
                    constraints |-> c, frequency |-> frequency,
                    goal |-> goal, method |-> method ]
       /\ locals' = GridSearchStart(c)
       /\ pc' = method
  /\ result' = NoResult
  /\ UNCHANGED << svc, probe >>

\* One iteration of `for chunk in chunk_values`; an objective call that
\* raises ends optimize_chunk_amount.
GridSearchIteration ==
  /\ pc = "grid_search"
  /\ locals.i < NumGridPoints
  /\ LET chunk == GridPoint(args.constraints, locals.i)
         f == ObjectiveFunction(chunk, args)
     IN  IF f.raised
         THEN /\ result' = Raised("optimize", "ZeroDivisionError")
              /\ pc' = "returned"
              /\ UNCHANGED locals
         ELSE /\ locals' = GridSearchBody(locals, chunk, f.value)
              /\ UNCHANGED << pc, result >>
  /\ UNCHANGED << svc, args, probe >>

\* The grid is exhausted: optimal_chunk = best_chunk,
\* convergence_success = True.
GridSearchDone ==
  /\ pc = "grid_search"
  /\ locals.i = NumGridPoints
  /\ locals' = [ locals EXCEPT !.optimal_chunk = locals.best_chunk,
                               !.convergence_success = TRUE ]
  /\ pc' = "metrics"
  /\ UNCHANGED << svc, args, result, probe >>

\* What a library search leaves: the objective raises (on every point, when
\* it does), or the library returns some point of the bounds and reports
\* success or failure.  optimize_chunk_amount compares min_chunk with
\* max_chunk nowhere; what the library does with a lower bound above the
\* upper one depends on its version: it raises ValueError or searches on.
LibrarySearch ==
  IF ObjectiveFunction(args.constraints.min_chunk, args).raised
  THEN /\ result' = Raised("optimize", "ZeroDivisionError")
       /\ pc' = "returned"
       /\ UNCHANGED locals
  ELSE \/ /\ args.constraints.min_chunk > args.constraints.max_chunk
          /\ result' = Raised("optimize", "ValueError")
          /\ pc' = "returned"
          /\ UNCHANGED locals
       \/ /\ \E x \in LibraryPoints(args.constraints), success \in BOOLEAN :
               locals' = [ locals EXCEPT !.optimal_chunk = x,
                                         !.convergence_success = success ]
          /\ pc' = "metrics"
          /\ UNCHANGED result

\* scipy.optimize.differential_evolution(..., maxiter=self.max_iterations,
\* tol=self.tolerance, seed=42).
DifferentialEvolution ==
  /\ pc = "differential_evolution"
  /\ LibrarySearch
  /\ UNCHANGED << svc, args, probe >>

\* scipy.optimize.minimize(..., method="L-BFGS-B") from the midpoint.
ScipyMinimize ==
  /\ pc = "scipy"
  /\ LibrarySearch
  /\ UNCHANGED << svc, args, probe >>

\* History: the first call with probe inputs and its result are kept, and
\* whether a call with other arguments has returned since.
Observe(a, r) ==
  IF ~probe.taken
  THEN IF IsProbe(a)
       THEN [ taken |-> TRUE, args |-> a, result |-> r, interleaved |-> FALSE ]
       ELSE probe
  ELSE IF a # probe.args THEN [ probe EXCEPT !.interleaved = TRUE ]
  ELSE probe

\* The metrics are computed at the optimal chunk and the OptimizationResult
\* is returned.
OptimizeReturnWith(observed) ==
  /\ pc = "metrics"
  /\ result' = OptimizationResultOf(locals.optimal_chunk,
                                    locals.convergence_success, args)
  /\ pc' = "returned"
  /\ svc' = ServiceAfterOptimize(svc)
  /\ probe' = IF observed THEN Observe(args, result') ELSE probe
  /\ UNCHANGED << args, locals >>

OptimizeReturn == OptimizeReturnWith(FALSE)

ObservedOptimizeReturn == OptimizeReturnWith(TRUE)

\* Chunks _calculate_confidence_score is called with directly.
ConfidenceChunks ==
  { 0, 5 * Dollar, 12 * Dollar + 1, 30 * Dollar, 54 * Dollar, 150 * Dollar }

\* _calculate_confidence_score is called by itself, on Python floats.
CallConfidenceScore ==
  /\ CanCall
  /\ \E chunk \in ConfidenceChunks, c \in ConstraintsSet,
        convergence_success \in BOOLEAN :
       /\ args' = [ op |-> "confidence_score", optimal_chunk |-> chunk,
                    constraints |-> c,
                    convergence_success |-> convergence_success ]
       /\ LET score == ConfidenceScore(chunk, c, convergence_success, FALSE)
          IN  result' = IF score.raised
                        THEN Raised("confidence_score", "ZeroDivisionError")
                        ELSE [ op |-> "confidence_score", error |-> "",
                               value |-> score.value ]
  /\ pc' = "returned"
  /\ locals' = NoLocals
  /\ UNCHANGED << svc, probe >>

\* Chunks and goals _objective_function is called with directly; the goal
\* is any string.
ObjectiveChunks ==
  { 0, 5 * Dollar, 6 * Dollar, 20 * Dollar - 2, 54 * Dollar }

ObjectiveGoals == Goals \cup { "other" }

\* _objective_function is called by itself.
CallObjectiveFunction ==
  /\ CanCall
  /\ \E loan \in OptLoans, chunk \in ObjectiveChunks,
        frequency \in OptFrequencies, goal \in ObjectiveGoals :
       /\ args' = [ op |-> "objective", balance |-> loan.balance,
                    rate |-> loan.rate, payment |-> loan.payment,
                    chunk |-> chunk, frequency |-> frequency, goal |-> goal ]
       /\ LET f == ObjectiveFunction(chunk, args')
          IN  result' = IF f.raised
                        THEN Raised("objective", "ZeroDivisionError")
                        ELSE [ op |-> "objective", error |-> "",
                               value |-> f.value ]
  /\ pc' = "returned"
  /\ locals' = NoLocals
  /\ UNCHANGED << svc, probe >>

OptNext ==
  \/ TakeResult
  \/ CallOptimize
  \/ GridSearchIteration
  \/ GridSearchDone
  \/ DifferentialEvolution
  \/ ScipyMinimize
  \/ OptimizeReturn
  \/ CallConfidenceScore
  \/ CallObjectiveFunction

OptSpec == Init /\ [][OptNext]_vars

\* The same calls on the shared instance, with the history kept.
ObservedNext ==
  \/ TakeResult
  \/ CallOptimize
  \/ GridSearchIteration
  \/ GridSearchDone
  \/ DifferentialEvolution
  \/ ScipyMinimize
  \/ ObservedOptimizeReturn

ObservedSpec == Init /\ [][ObservedNext]_vars
(***************************************************************************)
(* compare_optimization_methods and multi_objective_optimization          *)
(***************************************************************************)
\* The whole loop of the grid search, from the locals s.
RECURSIVE GridSearchFrom(_, _)
GridSearchFrom(s, a) ==
  IF s.i >= NumGridPoints THEN s
  ELSE LET chunk == GridPoint(a.constraints, s.i)
       IN  GridSearchFrom(
             GridSearchBody(s, chunk, ObjectiveFunction(chunk, a).value), a)

\* What one call of optimize_chunk_amount with the arguments a can return
\* or raise.
OptimizeOutcomes(a) ==
  IF ObjectiveFunction(a.constraints.min_chunk, a).raised
  THEN { Raised("optimize", "ZeroDivisionError") }
  ELSE IF a.method = "grid_search"
  THEN { OptimizationResultOf(
           GridSearchFrom(GridSearchStart(a.constraints), a).best_chunk,
           TRUE, a) }
  ELSE { OptimizationResultOf(x, success, a) :
           x \in LibraryPoints(a.constraints), success \in BOOLEAN }
         \cup (IF a.constraints.min_chunk > a.constraints.max_chunk
               THEN { Raised("optimize", "ValueError") }
               ELSE { })

\* An objective list in another order.
ObjectivesReordered == << "time", "interest", "balanced" >>

\* objectives = ["interest", "time", "balanced"]
Objectives == << "interest", "time", "balanced" >>

\* methods = ["scipy", "differential_evolution", "grid_search"]
ComparedMethods == << "scipy", "differential_evolution", "grid_search" >>

\* The call self.optimize_chunk_amount(balance, interest_rate,
\* monthly_payment, constraints, frequency, goal, method) of the two loops.
SubCall(a, goal, method) ==
  [ op |-> "optimize", balance |-> a.balance, rate |-> a.rate,
    payment |-> a.payment, constraints |-> a.constraints,
    frequency |-> a.frequency, goal |-> goal, method |-> method ]

\* Inputs of the two comparisons.
AnalysisLoans ==
  { [ balance |-> 100 * Dollar, rate |-> 12, payment |-> 10 * Dollar ],
    [ balance |-> 100 * Dollar, rate |-> 0,  payment |-> 30 * Dollar ],
    [ balance |-> 0,            rate |-> 6,  payment |-> 10 * Dollar ] }

AnalysisConstraints == { ConstraintsTable[1] }

AnalysisFrequencies == { "monthly", "annual" }

\* The locals of the two loops: the results collected so far, each with the
\* call that produced it.
NoResults == [ results |-> << >> ]

\* multi_objective_optimization is called.
CallMultiObjective ==
  /\ CanCall
  /\ \E loan \in AnalysisLoans, c \in AnalysisConstraints,
        frequency \in AnalysisFrequencies :
       args' = [ op |-> "multi_objective", balance |-> loan.balance,
                 rate |-> loan.rate, payment |-> loan.payment,
                 constraints |-> c, frequency |-> frequency ]
  /\ locals' = NoResults
  /\ pc' = "multi_objective"
  /\ result' = NoResult
  /\ UNCHANGED << svc, probe >>

\* One iteration of `for objective in objectives`: the call of
\* optimize_chunk_amount and results.append(result); an exception of the
\* call ends multi_objective_optimization.
MultiObjectiveIteration ==
  /\ pc = "multi_objective"
  /\ Len(locals.results) < Len(Objectives)
  /\ LET call == SubCall(args, Objectives[Len(locals.results) + 1],
                         "differential_evolution")
     IN  \E r \in OptimizeOutcomes(call) :
           IF r.error # ""
           THEN /\ result' = Raised("multi_objective", r.error)
                /\ pc' = "returned"
                /\ UNCHANGED locals
           ELSE /\ locals' = [ locals EXCEPT !.results =
                                 Append(@, [ call |-> call, result |-> r ]) ]
                /\ UNCHANGED << pc, result >>
  /\ svc' = ServiceAfterOptimize(svc)
  /\ UNCHANGED << args, probe >>

\* The list is returned.
MultiObjectiveReturn ==
  /\ pc = "multi_objective"
  /\ Len(locals.results) = Len(Objectives)
  /\ result' = [ op |-> "multi_objective", error |-> "",
                 value |-> locals.results ]
  /\ pc' = "returned"
  /\ UNCHANGED << svc, args, locals, probe >>

\* compare_optimization_methods is called.
CallCompareMethods ==
  /\ CanCall
  /\ \E loan \in AnalysisLoans, c \in AnalysisConstraints,
        frequency \in AnalysisFrequencies, goal \in Goals :
       args' = [ op |-> "compare_methods", balance |-> loan.balance,
                 rate |-> loan.rate, payment |-> loan.payment,
                 constraints |-> c, frequency |-> frequency, goal |-> goal ]
  /\ locals' = NoResults
  /\ pc' = "compare_methods"
  /\ result' = NoResult
  /\ UNCHANGED << svc, probe >>

\* One iteration of `for method in methods`: results[method] = the call of
\* optimize_chunk_amount (a dict keeps its keys in insertion order).
CompareMethodsIteration ==
  /\ pc = "compare_methods"
  /\ Len(locals.results) < Len(ComparedMethods)
  /\ LET method == ComparedMethods[Len(locals.results) + 1]
         call == SubCall(args, args.goal, method)
     IN  \E r \in OptimizeOutcomes(call) :
           IF r.error # ""
           THEN /\ result' = Raised("compare_methods", r.error)
                /\ pc' = "returned"
                /\ UNCHANGED locals
           ELSE /\ locals' = [ locals EXCEPT !.results =
                                 Append(@, [ key |-> method, call |-> call,
                                             result |-> r ]) ]
                /\ UNCHANGED << pc, result >>
  /\ svc' = ServiceAfterOptimize(svc)
  /\ UNCHANGED << args, probe >>

\* The dict is returned.
CompareMethodsReturn ==
  /\ pc = "compare_methods"
  /\ Len(locals.results) = Len(ComparedMethods)
  /\ result' = [ op |-> "compare_methods", error |-> "",
                 value |-> locals.results ]
  /\ pc' = "returned"
  /\ UNCHANGED << svc, args, locals, probe >>

(***************************************************************************)
(* sensitivity_analysis                                                    *)
(***************************************************************************)
\* x * (1 + perturbation), the perturbation in percent.
Perturbed(x, perturbation) == DivRound(x * (100 + perturbation), 100)

\* Arguments in which a perturbation stays on for the later parameters.
PerturbedArgsCumulative(a, parameter) ==
  LET rate == [ a EXCEPT !.rate = Perturbed(a.rate, a.perturbation) ]
      chunk == [ rate EXCEPT !.chunk = Perturbed(a.chunk, a.perturbation) ]
  IN  CASE parameter = "interest_rate" -> rate
        [] parameter = "chunk_amount" -> chunk
        [] parameter = "monthly_payment" ->
             [ chunk EXCEPT !.payment = Perturbed(a.payment, a.perturbation) ]

\* The arguments of the _calculate_payoff_time call that tests a
\* parameter: that parameter perturbed, the others as they were given.
PerturbedArgs(a, parameter) ==
  CASE parameter = "interest_rate" ->
         [ a EXCEPT !.rate = Perturbed(a.rate, a.perturbation) ]
    [] parameter = "chunk_amount" ->
         [ a EXCEPT !.chunk = Perturbed(a.chunk, a.perturbation) ]
    [] parameter = "monthly_payment" ->
         [ a EXCEPT !.payment = Perturbed(a.payment, a.perturbation) ]

\* The parameters, in the order sensitivity_analysis tests them.
SensitivityParameters == << "interest_rate", "chunk_amount", "monthly_payment" >>

\* The entry sensitivities[parameter]; the two percentages divide by the
\* baseline months and the baseline interest.
SensitivityEntry(a, parameter, baseline) ==
  LET perturbed == CalculatePayoffTime(PerturbedArgs(a, parameter))
      months_change == perturbed.months - baseline.months
      interest_change == perturbed.interest - baseline.interest
  IN  IF baseline.months = 0 \/ baseline.interest = 0
      THEN [ raised |-> TRUE, parameter |-> parameter ]
      ELSE [ raised |-> FALSE, parameter |-> parameter,
             months_change |-> months_change,
             interest_change |-> interest_change,
             months_pct |-> Percentage(months_change, baseline.months),
             interest_pct |-> Percentage(interest_change, baseline.interest) ]

\* sensitivity_analysis(balance, interest_rate, monthly_payment,
\* constraints, optimal_chunk, frequency, perturbation)
SensitivityAnalysis(a) ==
  LET baseline == CalculatePayoffTime(a)
      entries == [ i \in 1..Len(SensitivityParameters) |->
                     SensitivityEntry(a, SensitivityParameters[i], baseline) ]
  IN  IF \E i \in 1..Len(entries) : entries[i].raised
      THEN Raised("sensitivity", "ZeroDivisionError")
      ELSE [ op |-> "sensitivity", error |-> "", value |-> entries ]

\* Inputs of sensitivity_analysis; a perturbation is drawn only with the
\* rates it keeps whole.
SensitivityLoans ==
  { [ balance |-> 100 * Dollar, rate |-> 10, payment |-> 10 * Dollar ],
    [ balance |-> 100 * Dollar, rate |-> 12, payment |-> 10 * Dollar ],
    [ balance |-> 250 * Dollar, rate |-> 6,  payment |-> 20 * Dollar ],
    [ balance |-> 100 * Dollar, rate |-> 0,  payment |-> 30 * Dollar ],
    [ balance |-> 0,            rate |-> 6,  payment |-> 10 * Dollar ] }

SensitivityChunks == { 0, 5 * Dollar, 20 * Dollar - 2 }

Perturbations == { 10, 50 }

\* sensitivity_analysis is called and returns, or raises.
CallSensitivity ==
  /\ CanCall
  /\ \E loan \in SensitivityLoans, chunk \in SensitivityChunks,
        frequency \in Frequencies, perturbation \in Perturbations :
       /\ (loan.rate * (100 + perturbation)) % 100 = 0
       /\ args' = [ op |-> "sensitivity", balance |-> loan.balance,
                    rate |-> loan.rate, payment |-> loan.payment,
                    chunk |-> chunk, frequency |-> frequency,
                    perturbation |-> perturbation ]
       /\ result' = SensitivityAnalysis(args')
  /\ pc' = "returned"
  /\ locals' = NoLocals
  /\ UNCHANGED << svc, probe >>

(***************************************************************************)
(* The /chunk endpoint of the optimization controller                      *)
(***************************************************************************)
\* The constraints the handler builds from a request:
\* min_chunk = max(1000, monthly_cashflow * 0.5),
\* max_chunk = min(available_loc * 0.9, monthly_cashflow * 6).
RequestConstraints(available_loc, monthly_income, monthly_expenses) ==
  LET monthly_cashflow == monthly_income - monthly_expenses
  IN  [ min_chunk |-> Max(1000 * Dollar, DivRound(monthly_cashflow * 5, 10)),
        max_chunk |-> Min(DivRound(available_loc * 9, 10), monthly_cashflow * 6),
        available_loc |-> available_loc,
        monthly_income |-> monthly_income,
        monthly_expenses |-> monthly_expenses ]

\* Request bodies: the loan, and the credit line and budget of the
\* household.
RequestLoans ==
  { [ balance |-> 20000 * Dollar, rate |-> 6, payment |-> 1500 * Dollar ] }

RequestHouseholds ==
  { [ available_loc |-> 50000 * Dollar, monthly_income |-> 7000 * Dollar,
      monthly_expenses |-> 4500 * Dollar ],
    [ available_loc |-> 50000 * Dollar, monthly_income |-> 5000 * Dollar,
      monthly_expenses |-> 4900 * Dollar ],
    [ available_loc |-> 2000 * Dollar, monthly_income |-> 7000 * Dollar,
      monthly_expenses |-> 4500 * Dollar ],
    [ available_loc |-> 0, monthly_income |-> 7000 * Dollar,
      monthly_expenses |-> 4500 * Dollar ] }

\* POST /chunk: the handler parses the body, builds the constraints, calls
\* optimize_chunk_amount on the module-level service and answers 200 with
\* the result and the constraints, or 500 with the message of an exception.
ChunkEndpoint ==
  /\ CanCall
  /\ \E loan \in RequestLoans, household \in RequestHouseholds,
        goal \in Goals, method \in Methods :
       LET constraints == RequestConstraints(household.available_loc,
                                             household.monthly_income,
                                             household.monthly_expenses)
           call == [ op |-> "optimize", balance |-> loan.balance,
                     rate |-> loan.rate, payment |-> loan.payment,
                     constraints |-> constraints, frequency |-> "monthly",
                     goal |-> goal, method |-> method ]
       IN  /\ args' = [ op |-> "chunk_endpoint", balance |-> loan.balance,
                        rate |-> loan.rate, payment |-> loan.payment,
                        available_loc |-> household.available_loc,
                        monthly_income |-> household.monthly_income,
                        monthly_expenses |-> household.monthly_expenses,
                        frequency |-> "monthly", goal |-> goal,
                        method |-> method, call |-> call ]
           /\ \E r \in OptimizeOutcomes(call) :
                result' = [ op |-> "chunk_endpoint",
                            status |-> EndpointStatus(r),
                            error |-> r.error, value |-> r.value ]
  /\ pc' = "returned"
  /\ locals' = NoLocals
  /\ svc' = ServiceAfterOptimize(svc)
  /\ UNCHANGED probe

AnalysisNext ==
  \/ TakeResult
  \/ CallOptimize
  \/ GridSearchIteration
  \/ GridSearchDone
  \/ DifferentialEvolution
  \/ ScipyMinimize
  \/ OptimizeReturn
  \/ CallMultiObjective
  \/ MultiObjectiveIteration
  \/ MultiObjectiveReturn
  \/ CallCompareMethods
  \/ CompareMethodsIteration
  \/ CompareMethodsReturn
  \/ CallSensitivity
  \/ ChunkEndpoint

AnalysisSpec == Init /\ [][AnalysisNext]_vars

\* A running simulation runs on: the computation is synchronous and
\* CPU-bound, nothing suspends it.
LoopStep ==
  \/ AmortizationIteration
  \/ AmortizationReturn
  \/ VelocityIteration
  \/ VelocityReturn
  \/ PayoffIteration
  \/ PayoffReturn

FairSpec == Spec /\ WF_vars(LoopStep)

(***************************************************************************)
(* Properties                                                              *)
(***************************************************************************)
Returned(op) == pc = "returned" /\ args.op = op

\* One of the three simulations has returned.
SimulationReturned ==
  pc = "returned" /\ args.op \in { "amortization", "velocity", "payoff_time" }

InLoop == pc \in { "amortization", "velocity", "payoff_time" }

\* The months and the interest a returned simulation reports.
ReturnedMonths ==
  CASE args.op = "amortization" -> result.value.months_to_payoff
    [] args.op = "velocity" -> result.value.total_months
    [] args.op = "payoff_time" -> result.value.months

ReturnedInterest ==
  CASE args.op = "amortization" -> result.value.total_interest
    [] args.op = "velocity" -> result.value.total_interest
    [] args.op = "payoff_time" -> result.value.interest

\* The same simulation as the returned one, with other arguments.
MonthsWith(a) ==
  IF a.op = "velocity" THEN CalculateVelocityScenario(a).total_months
  ELSE CalculatePayoffTime(a).months

InterestWith(a) ==
  IF a.op = "velocity" THEN CalculateVelocityScenario(a).total_interest
  ELSE CalculatePayoffTime(a).interest

\* C1: with chunk_amount = 0 and any of the three frequencies,
\* calculate_velocity_scenario returns the total_months and the
\* total_interest of calculate_amortization on the same balance, rate and
\* payment, and its schedule shows the same balance (and interest and
\* principal) month by month.
C1_ZeroChunkIsAmortization ==
  (Returned("velocity") /\ args.chunk = 0) =>
    LET standard == CalculateAmortization(args)
        velocity == result.value
    IN  /\ velocity.total_months = standard.months_to_payoff
        /\ velocity.total_interest = standard.total_interest
        /\ Len(velocity.schedule) = Len(standard.schedule)
        /\ \A i \in 1..Len(velocity.schedule) :
             /\ velocity.schedule[i].balance = standard.schedule[i].balance
             /\ velocity.schedule[i].interest = standard.schedule[i].interest
             /\ velocity.schedule[i].principal = standard.schedule[i].principal

C1_Witness ==
  /\ Returned("velocity")
  /\ args.chunk = 0
  /\ args.frequency = "quarterly"
  /\ result.value.total_months > 3
  /\ result.value.total_interest > 0

\* C2: for fixed balance, rate, payment and frequency, a simulation
\* (calculate_velocity_scenario, _calculate_payoff_time) at chunk c2 has
\* no more months and no more interest than at any chunk c1 with
\* 0 <= c1 <= c2.
C2_MonotoneInChunk ==
  (Returned("velocity") \/ Returned("payoff_time")) =>
    \A c1 \in Chunks :
      c1 <= args.chunk =>
        /\ ReturnedMonths <= MonthsWith([args EXCEPT !.chunk = c1])
        /\ ReturnedInterest <= InterestWith([args EXCEPT !.chunk = c1])

C2_Witness ==
  /\ Returned("velocity")
  /\ args.chunk > 0
  /\ \E c1 \in Chunks :
       /\ 0 < c1 /\ c1 < args.chunk
       /\ ReturnedMonths < MonthsWith([args EXCEPT !.chunk = c1])
       /\ ReturnedInterest < InterestWith([args EXCEPT !.chunk = c1])

\* The literal period of a frequency.
PeriodOf(frequency) ==
  IF frequency = "monthly" THEN 1 ELSE IF frequency = "quarterly" THEN 3 ELSE 12

\* C3: for the same balance, rate, payment and chunk,
\* total_months(monthly) <= total_months(quarterly) <= total_months(annual),
\* and the schedule shows a chunk exactly in the months m with
\* m mod 1, m mod 3, m mod 12 equal to 0 respectively (and chunk > 0).
C3_FrequencyOrdering ==
  Returned("velocity") =>
    /\ MonthsWith([args EXCEPT !.frequency = "monthly"])
         <= MonthsWith([args EXCEPT !.frequency = "quarterly"])
    /\ MonthsWith([args EXCEPT !.frequency = "quarterly"])
         <= MonthsWith([args EXCEPT !.frequency = "annual"])
    /\ ReturnedMonths = MonthsWith(args)
    /\ \A i \in 1..Len(result.value.schedule) :
         (result.value.schedule[i].chunk_applied > 0)
           <=> (args.chunk > 0 /\ i % PeriodOf(args.frequency) = 0)

C3_Witness ==
  /\ Returned("velocity")
  /\ args.frequency = "quarterly"
  /\ args.chunk > 0
  /\ MonthsWith([args EXCEPT !.frequency = "monthly"]) < ReturnedMonths
  /\ ReturnedMonths < MonthsWith([args EXCEPT !.frequency = "annual"])
  /\ ReturnedMonths > 12

\* The balance reported by the last entry of a returned schedule (0 when
\* there is none).
LastEntryBalance ==
  IF args.op = "payoff_time" \/ Len(result.value.schedule) = 0 THEN 0
  ELSE result.value.schedule[Len(result.value.schedule)].balance

\* C6: every simulation loop terminates, zero rates and payments below the
\* first month's interest included: a running simulation returns, with
\* total months <= 360; the month counter never exceeds 360 and an
\* iteration increases it by exactly 1.
C6_LoopsTerminate ==
  /\ [](locals.month <= MaxMonths)
  /\ [](SimulationReturned => ReturnedMonths <= MaxMonths)
  /\ [][InLoop /\ locals' # locals => locals'.month = locals.month + 1]_vars
  /\ (InLoop ~> pc = "returned")

C6_Witness ==
  /\ SimulationReturned
  /\ ReturnedMonths = MaxMonths
  /\ locals.balance > args.balance
  /\ args.payment < InterestPayment(args.balance, args.rate)

\* C7: a simulation that returns total months < 360 has a balance
\* <= 0.01 after its last month, and the last entry of its schedule reports
\* a balance <= 0.01; a balance above 0.01 remains only with total months
\* = 360.
C7_TruncationDistinguishable ==
  SimulationReturned =>
    /\ ReturnedMonths < MaxMonths =>
         (locals.balance <= PayoffTolerance /\ LastEntryBalance <= PayoffTolerance)
    /\ locals.balance > PayoffTolerance => ReturnedMonths = MaxMonths

C7_Witness ==
  /\ Returned("velocity")
  /\ args.chunk > 0
  /\ ReturnedMonths < MaxMonths
  /\ ReturnedMonths > 1
  /\ locals.balance > 0
  /\ locals.balance <= PayoffTolerance

\* The last entry of the schedule after a step.
NewEntry == locals'.schedule[Len(locals'.schedule)]

\* C8: in a chunk month of calculate_velocity_scenario,
\* min(chunk_amount, balance) is subtracted first.  If the balance is then
\* <= 0.01, one terminal entry is emitted (principal = the chunk applied,
\* interest 0, balance 0), no interest is added, the regular payment is not
\* applied, and the simulation stops with that month.  Otherwise the
\* month's interest is computed on the balance the chunk left.
C8_ChunkBeforePayment ==
  [][ /\ (pc = "velocity" /\ locals' # locals
            /\ args.chunk > 0
            /\ (locals.month + 1) % PeriodOf(args.frequency) = 0) =>
          LET chunk_to_apply == Min(args.chunk, locals.balance)
              reduced == locals.balance - chunk_to_apply
          IN  /\ Len(locals'.schedule) = Len(locals.schedule) + 1
              /\ NewEntry.chunk_applied = chunk_to_apply
              /\ locals'.total_chunk_payments
                   = locals.total_chunk_payments + chunk_to_apply
              /\ IF reduced <= PayoffTolerance
                 THEN /\ NewEntry.principal = chunk_to_apply
                      /\ NewEntry.interest = 0
                      /\ NewEntry.balance = 0
                      /\ locals'.total_interest = locals.total_interest
                      /\ locals'.balance = reduced
                      /\ locals'.broke
                 ELSE /\ NewEntry.interest * 2400 <= 2 * reduced * args.rate + 1200
                      /\ NewEntry.interest * 2400 > 2 * reduced * args.rate - 1200
                      /\ NewEntry.principal
                           = Min(args.payment - NewEntry.interest, reduced)
                      /\ locals'.balance = reduced - NewEntry.principal
                      /\ locals'.total_interest
                           = locals.total_interest + NewEntry.interest
      /\ (pc = "velocity" /\ locals.broke) =>
           /\ pc' = "returned"
           /\ result'.value.total_months = locals.month
           /\ result'.value.schedule = locals.schedule
           /\ result'.value.total_interest = locals.total_interest ]_vars

C8_Witness ==
  /\ pc = "velocity"
  /\ locals.broke
  /\ locals.month > 1
  /\ locals.total_interest > 0
  /\ locals.schedule[Len(locals.schedule)].interest = 0
  /\ \E i \in 1..Len(locals.schedule) :
       /\ locals.schedule[i].chunk_applied > 0
       /\ locals.schedule[i].interest > 0

\* C4, as claimed: for every method and constraints with
\* 0 <= min_chunk <= max_chunk, the optimal_chunk of the returned
\* OptimizationResult (the value rounded to 2 decimals) lies within
\* [min_chunk, max_chunk].
C4_OptimalChunkWithinBounds ==
  (/\ Returned("optimize")
   /\ result.error = ""
   /\ 0 <= args.constraints.min_chunk
   /\ args.constraints.min_chunk <= args.constraints.max_chunk) =>
    /\ args.constraints.min_chunk <= result.value.optimal_chunk
    /\ result.value.optimal_chunk <= args.constraints.max_chunk

\* C5: the confidence score is within [0, 1] whenever one is computed, and
\* it is exactly 0.3 whenever the search did not converge, whatever the
\* chunk and the constraints (no error is raised then).
C5_ConfidenceScore ==
  /\ (Returned("confidence_score") /\ ~args.convergence_success) =>
       (result.error = "" /\ result.value = 30)
  /\ (Returned("confidence_score") /\ result.error = "") =>
       (0 <= result.value /\ result.value <= 100)
  /\ (Returned("optimize") /\ result.error = "") =>
       /\ 0 <= result.value.confidence_score
       /\ result.value.confidence_score <= 100
       /\ ~result.value.convergence_success =>
            result.value.confidence_score = 30

C5_Witness ==
  /\ Returned("confidence_score")
  /\ ~args.convergence_success
  /\ args.constraints.available_loc = 0
  /\ args.optimal_chunk > 3 * (args.constraints.monthly_income
                                 - args.constraints.monthly_expenses)
  /\ result.value = 30

\* The objective values at the points a returned grid search evaluated.
EvaluatedValues ==
  [ j \in 1..Len(locals.evaluated) |->
      ObjectiveFunction(locals.evaluated[j], args).value ]

Abs(x) == IF x >= 0 THEN x ELSE 0 - x

\* C9 (amended): a grid search that returns a result has evaluated the
\* objective at exactly the 50 equally spaced points of
\* [min_chunk, max_chunk], both endpoints included; the chunk it selects is
\* the first (lowest) of the grid points whose objective value is minimal;
\* the result's optimal_chunk is that grid point rounded to 2 decimals,
\* and convergence_success is true.
C9_GridSearch ==
  (/\ Returned("optimize")
   /\ args.method = "grid_search"
   /\ result.error = ""
   /\ args.constraints.min_chunk <= args.constraints.max_chunk) =>
    LET c == args.constraints
        e == locals.evaluated
        v == EvaluatedValues
    IN  /\ Len(e) = 50
        /\ e[1] = c.min_chunk
        /\ e[50] = c.max_chunk
        /\ \A i \in 1..50 :
             2 * Abs(49 * (e[i] - c.min_chunk)
                       - (i - 1) * (c.max_chunk - c.min_chunk)) <= 49
        /\ \E k \in 1..50 :
             /\ locals.optimal_chunk = e[k]
             /\ \A j \in 1..50 : v[k] <= v[j]
             /\ \A j \in 1..(k - 1) : v[j] > v[k]
        /\ result.value.optimal_chunk % UnitsPerCent = 0
        /\ 2 * Abs(result.value.optimal_chunk - locals.optimal_chunk)
             <= UnitsPerCent
        /\ result.value.convergence_success

C9_Witness ==
  /\ Returned("optimize")
  /\ args.method = "grid_search"
  /\ result.error = ""
  /\ args.constraints.min_chunk < locals.optimal_chunk
  /\ locals.optimal_chunk < args.constraints.max_chunk
  /\ \E j \in 1..50 :
       /\ locals.evaluated[j] > locals.optimal_chunk
       /\ EvaluatedValues[j]
            = ObjectiveFunction(locals.optimal_chunk, args).value
  /\ result.value.optimal_chunk # locals.optimal_chunk

\* C9, as claimed: a grid search evaluates exactly the 50 equally spaced
\* points of [min_chunk, max_chunk] and the optimal_chunk it returns is one
\* of them, with an objective value <= that of every other grid point (the
\* lowest such chunk on a tie); convergence_success is true.
C9_ReturnsGridPoint ==
  (/\ Returned("optimize")
   /\ args.method = "grid_search"
   /\ result.error = ""
   /\ args.constraints.min_chunk <= args.constraints.max_chunk) =>
    LET e == locals.evaluated
        v == EvaluatedValues
    IN  /\ Len(e) = 50
        /\ \A i \in 1..50 : e[i] = GridPoint(args.constraints, i - 1)
        /\ \E k \in 1..50 :
             /\ result.value.optimal_chunk = e[k]
             /\ \A j \in 1..50 : v[k] <= v[j]
             /\ \A j \in 1..(k - 1) : v[j] > v[k]
        /\ result.value.convergence_success

LoanAt(chunk) ==
  CalculateVelocityScenario([ balance |-> args.balance, rate |-> args.rate,
                              payment |-> args.payment, chunk |-> chunk,
                              frequency |-> args.frequency ])

\* x is y rounded to 2 decimals.
IsRoundedTo(x, y) == x % UnitsPerCent = 0 /\ 2 * Abs(x - y) <= UnitsPerCent

\* C11: for every method, with the chunk the search selected (of which the
\* result's optimal_chunk is the 2-decimal rounding): months_to_payoff is
\* the month count of simulating the loan at that chunk, total_interest is
\* that simulation's interest rounded to 2 decimals, interest_saved is the
\* interest of the chunk = 0 simulation minus the interest at the chunk,
\* rounded to 2 decimals, and monthly_cashflow_impact is the chunk / 3
\* rounded to 2 decimals.
C11_PostProcessing ==
  (Returned("optimize") /\ result.error = "") =>
    LET chunk == locals.optimal_chunk
        r == result.value
        optimal == LoanAt(chunk)
        baseline == LoanAt(0)
    IN  /\ IsRoundedTo(r.optimal_chunk, chunk)
        /\ r.months_to_payoff = optimal.total_months
        /\ IsRoundedTo(r.total_interest, optimal.total_interest)
        /\ IsRoundedTo(r.interest_saved,
                       baseline.total_interest - optimal.total_interest)
        /\ r.monthly_cashflow_impact % UnitsPerCent = 0
        /\ 2 * Abs(3 * r.monthly_cashflow_impact - chunk) <= 3 * UnitsPerCent

C11_Witness ==
  /\ Returned("optimize")
  /\ args.method = "differential_evolution"
  /\ args.goal = "time"
  /\ result.error = ""
  /\ result.value.interest_saved > 0
  /\ result.value.months_to_payoff > 1
  /\ result.value.optimal_chunk # locals.optimal_chunk
  /\ result.value.interest_saved
       # (LoanAt(0).total_months - result.value.months_to_payoff) * Dollar

\* C12, as claimed: optimize_chunk_amount called with min_chunk > max_chunk
\* fails with an error for every method and returns no OptimizationResult.
C12_InvertedBoundsFail ==
  (/\ Returned("optimize")
   /\ args.constraints.min_chunk > args.constraints.max_chunk) =>
    result.error # ""

\* C13, as claimed: an optimization request with balance <= 0, monthly
\* payment <= 0 or a negative rate ends in an error (status 400 or 500 at
\* the endpoint), never in a successful OptimizationResult.
C13_InvalidLoanRejected ==
  (/\ Returned("optimize")
   /\ (args.balance <= 0 \/ args.payment <= 0 \/ args.rate < 0)) =>
    /\ result.error # ""
    /\ EndpointStatus(result) \in { 400, 500 }

\* C14: calculate_savings returns interest_saved = standard.total_interest
\* - velocity.total_interest, months_saved = standard.months_to_payoff -
\* velocity.total_months and percentage_saved = interest_saved /
\* standard.total_interest * 100 (here to the nearest tenth of a percent),
\* and it fails with a division error, returning nothing, exactly when
\* standard.total_interest is 0.
C14_Savings ==
  Returned("savings") =>
    LET standard == CalculateAmortization(args)
        velocity == CalculateVelocityScenario(args)
        saved == standard.total_interest - velocity.total_interest
    IN  /\ (result.error = "ZeroDivisionError") <=> (standard.total_interest = 0)
        /\ result.error \in { "", "ZeroDivisionError" }
        /\ result.error = "" =>
             /\ result.value.interest_saved = saved
             /\ result.value.months_saved
                  = standard.months_to_payoff - velocity.total_months
             /\ 2 * Abs(result.value.percentage_saved * standard.total_interest
                          - 1000 * saved) <= standard.total_interest

C14_Witness ==
  /\ Returned("savings")
  /\ result.error = "ZeroDivisionError"
  /\ args.rate = 0
  /\ args.chunk > 0
  /\ args.balance > args.payment

\* C15: for a loan with balance > 0.01 and a positive rate, the simulation
\* (calculate_velocity_scenario, _calculate_payoff_time) with a positive
\* monthly chunk has a total interest strictly lower than the simulation of
\* the same loan with no chunk, and no more months.
C15_ChunksReduce ==
  (/\ Returned("velocity") \/ Returned("payoff_time")
   /\ args.frequency = "monthly"
   /\ args.chunk > 0
   /\ args.balance > PayoffTolerance
   /\ args.rate > 0) =>
    /\ ReturnedInterest < InterestWith([args EXCEPT !.chunk = 0])
    /\ ReturnedMonths <= MonthsWith([args EXCEPT !.chunk = 0])

C15_Witness ==
  /\ Returned("velocity")
  /\ args.frequency = "monthly"
  /\ args.chunk > 0
  /\ args.chunk < args.balance
  /\ args.rate > 0
  /\ ReturnedInterest > 0
  /\ ReturnedInterest < InterestWith([args EXCEPT !.chunk = 0])
  /\ ReturnedMonths < MonthsWith([args EXCEPT !.chunk = 0])
  /\ MonthsWith([args EXCEPT !.chunk = 0]) = MaxMonths

\* C16, as claimed: for every frequency, optimizing a loan with balance > 0,
\* a positive rate and constraints with 0 < min_chunk <= max_chunk returns
\* a result with optimal_chunk > 0 and interest_saved > 0.
C16_PositiveChunkAndSaving ==
  (/\ Returned("optimize")
   /\ result.error = ""
   /\ args.balance > 0
   /\ args.rate > 0
   /\ 0 < args.constraints.min_chunk
   /\ args.constraints.min_chunk <= args.constraints.max_chunk) =>
    /\ result.value.optimal_chunk > 0
    /\ result.value.interest_saved > 0

\* C16 (amended): under the same conditions the result has optimal_chunk
\* >= 0, and > 0 when min_chunk >= 0.01 (the field is a 2-decimal
\* rounding), and interest_saved >= 0; interest_saved is > 0 only when the
\* loan without chunks runs for at least one chunk period (1, 3 or 12
\* months): a loan paid off before its first chunk month saves nothing.
C16_ChunkAndSaving ==
  (/\ Returned("optimize")
   /\ result.error = ""
   /\ args.balance > 0
   /\ args.rate > 0
   /\ 0 < args.constraints.min_chunk
   /\ args.constraints.min_chunk <= args.constraints.max_chunk) =>
    /\ result.value.optimal_chunk >= 0
    /\ args.constraints.min_chunk >= UnitsPerCent =>
         result.value.optimal_chunk > 0
    /\ result.value.interest_saved >= 0
    /\ result.value.interest_saved > 0 =>
         LoanAt(0).total_months >= PeriodOf(args.frequency)

C16_Witness ==
  /\ Returned("optimize")
  /\ result.error = ""
  /\ args.frequency = "annual"
  /\ args.balance > 0
  /\ args.rate > 0
  /\ args.constraints.min_chunk >= UnitsPerCent
  /\ args.constraints.min_chunk < args.constraints.max_chunk
  /\ LoanAt(0).total_months < 12
  /\ result.value.optimal_chunk > 0
  /\ result.value.interest_saved = 0

\* r is something that one call of optimize_chunk_amount with the
\* arguments a can return or raise.
IsOutcome(r, a) ==
  IF r.error # "" \/ a.method = "grid_search"
  THEN r \in OptimizeOutcomes(a)
  ELSE /\ ~ObjectiveFunction(a.constraints.min_chunk, a).raised
       /\ \E x \in LibraryPoints(a.constraints) :
            /\ ReportedChunk(x) = r.value.optimal_chunk
            /\ r = OptimizationResultOf(x, r.value.convergence_success, a)

\* C17: multi_objective_optimization returns exactly three results, those
\* of the goals interest, time, balanced in that order, each from a call
\* with the differential_evolution method; compare_optimization_methods
\* returns exactly the entries scipy, differential_evolution, grid_search
\* in that order, each from a call with that method and the given goal.
\* Every call is made with the caller's loan, constraints and frequency,
\* and its entry is a result that a standalone optimize_chunk_amount call
\* with those arguments returns (for grid_search: the one result); the
\* calls leave the service as it was.
C17_ComparisonsInOrder ==
  /\ (Returned("multi_objective") /\ result.error = "") =>
       /\ Len(result.value) = 3
       /\ \A i \in 1..3 :
            LET e == result.value[i]
                goal == << "interest", "time", "balanced" >>[i]
            IN  /\ e.call = [ op |-> "optimize", balance |-> args.balance,
                              rate |-> args.rate, payment |-> args.payment,
                              constraints |-> args.constraints,
                              frequency |-> args.frequency, goal |-> goal,
                              method |-> "differential_evolution" ]
                /\ IsOutcome(e.result, e.call)
                /\ e.result.error = ""
  /\ (Returned("compare_methods") /\ result.error = "") =>
       /\ Len(result.value) = 3
       /\ \A i \in 1..3 :
            LET e == result.value[i]
                method == << "scipy", "differential_evolution",
                             "grid_search" >>[i]
            IN  /\ e.key = method
                /\ e.call = [ op |-> "optimize", balance |-> args.balance,
                              rate |-> args.rate, payment |-> args.payment,
                              constraints |-> args.constraints,
                              frequency |-> args.frequency,
                              goal |-> args.goal, method |-> method ]
                /\ IsOutcome(e.result, e.call)
                /\ e.result.error = ""
  /\ Returned("optimize") => IsOutcome(result, args)
  /\ svc = NewService

C17_Witness ==
  /\ Returned("multi_objective")
  /\ result.error = ""
  /\ Len(result.value) = 3
  /\ result.value[1].result.value.optimal_chunk
       # result.value[2].result.value.optimal_chunk
  /\ result.value[2].result.value.optimal_chunk
       # result.value[3].result.value.optimal_chunk
  /\ result.value[3].result.value.interest_saved > 0

\* The public simulation of the loan of the running call with some
\* arguments replaced.
SimulationWith(a) == CalculateVelocityScenario([ a EXCEPT !.op = "velocity" ])

\* C18: a sensitivity report diffs against one baseline, the simulation at
\* (optimal_chunk, balance, rate, payment): its entries are, in this
\* order, for interest_rate, chunk_amount and monthly_payment, and the
\* months_change and interest_change of each are those of the simulation
\* with only that parameter multiplied by (1 + perturbation), minus the
\* baseline's.
C18_Sensitivity ==
  (Returned("sensitivity") /\ result.error = "") =>
    LET baseline == SimulationWith(args)
        factor == 100 + args.perturbation
        rate == SimulationWith(
                  [ args EXCEPT !.rate = (args.rate * factor) \div 100 ])
        chunk == SimulationWith(
                   [ args EXCEPT !.chunk = DivRound(args.chunk * factor, 100) ])
        payment == SimulationWith(
                     [ args EXCEPT !.payment = DivRound(args.payment * factor, 100) ])
        expected == << [ parameter |-> "interest_rate", simulation |-> rate ],
                       [ parameter |-> "chunk_amount", simulation |-> chunk ],
                       [ parameter |-> "monthly_payment", simulation |-> payment ] >>
    IN  /\ Len(result.value) = 3
        /\ \A i \in 1..3 :
             /\ result.value[i].parameter = expected[i].parameter
             /\ result.value[i].months_change
                  = expected[i].simulation.total_months - baseline.total_months
             /\ result.value[i].interest_change
                  = expected[i].simulation.total_interest
                      - baseline.total_interest

C18_Witness ==
  /\ Returned("sensitivity")
  /\ result.error = ""
  /\ args.chunk > 0
  /\ args.perturbation = 10
  /\ result.value[1].interest_change > 0
  /\ result.value[2].interest_change < 0
  /\ result.value[3].interest_change < 0
  /\ result.value[3].months_change < 0

\* The schedule of a returned calculate_amortization call whose rate is
\* positive and whose payment is above the first month's interest.
AmortizingSchedule ==
  /\ Returned("amortization")
  /\ args.rate > 0
  /\ args.payment * 1200 > args.balance * args.rate

\* C19 as stated: with at least two entries, the last entry's principal
\* is greater than the first entry's.
C19_LastPrincipalGreater ==
  (AmortizingSchedule /\ Len(result.value.schedule) >= 2) =>
    LET schedule == result.value.schedule
    IN  schedule[Len(schedule)].principal > schedule[1].principal

\* C19: the principal portion increases over time up to the final payment:
\* for a positive rate and a payment above the first month's interest, the
\* principal of every entry other than the last is greater than the
\* principal of the entry before it.
C19_PrincipalIncreases ==
  AmortizingSchedule =>
    LET schedule == result.value.schedule
    IN  \A i \in 2..(Len(schedule) - 1) :
          schedule[i].principal > schedule[i - 1].principal

C19_Witness ==
  /\ AmortizingSchedule
  /\ Len(result.value.schedule) >= 3
  /\ LET schedule == result.value.schedule
     IN  /\ schedule[Len(schedule) - 1].principal > schedule[1].principal
         /\ schedule[Len(schedule)].principal < schedule[1].principal

\* C20 as stated: the recommended chunk is always less than the full
\* available line of credit.
C20_AlwaysBelowCredit ==
  Returned("optimal_chunk") =>
    result.value.recommended_chunk < args.available_loc

\* C20: calculate_optimal_chunk recommends min(0.8 * available_loc,
\* 3 * (monthly_income - monthly_expenses)); the recommended chunk is never
\* more than 0.8 of the available line of credit, so less than the full
\* line whenever the line is positive, and never more than three months of
\* net cash flow; exactly three scenarios are returned, for 0.5, 0.75 and
\* 1.0 times the recommended chunk in that order.
C20_OptimalChunk ==
  Returned("optimal_chunk") =>
    LET recommended == result.value.recommended_chunk
        scenarios == result.value.scenarios
        cashflow == args.monthly_income - args.monthly_expenses
        safe == (2 * 8 * args.available_loc + 10) \div 20
        expected == << (2 * recommended + 2) \div 4,
                       (2 * 3 * recommended + 4) \div 8,
                       recommended >>
    IN  /\ recommended = IF safe <= 3 * cashflow THEN safe ELSE 3 * cashflow
        /\ recommended <= safe
        /\ recommended <= 3 * cashflow
        /\ args.available_loc > 0 => recommended < args.available_loc
        /\ Len(scenarios) = 3
        /\ \A i \in 1..3 :
             LET simulation ==
                   SimulationWith([ op |-> args.op, balance |-> args.balance,
                                    rate |-> args.rate,
                                    payment |-> args.payment,
                                    chunk |-> expected[i],
                                    frequency |-> "monthly" ])
             IN  /\ scenarios[i].chunk_amount = expected[i]
                 /\ scenarios[i].months_to_payoff = simulation.total_months
                 /\ scenarios[i].total_interest = simulation.total_interest

C20_Witness ==
  /\ Returned("optimal_chunk")
  /\ args.available_loc > 0
  /\ result.value.recommended_chunk > 0
  /\ result.value.recommended_chunk
       = 3 * (args.monthly_income - args.monthly_expenses)
  /\ result.value.scenarios[3].months_to_payoff
       < result.value.scenarios[1].months_to_payoff

\* The objective of the running optimizer call at a chunk.
ObjectiveAt(chunk) == ObjectiveFunction(chunk, args).value

\* A grid search for the goal interest or time has returned a result, and
\* the objective at max_chunk is strictly lower than at min_chunk.
UpperBoundBetter ==
  /\ Returned("optimize")
  /\ args.method = "grid_search"
  /\ result.error = ""
  /\ args.goal \in { "interest", "time" }
  /\ ObjectiveAt(args.constraints.max_chunk)
       < ObjectiveAt(args.constraints.min_chunk)

PayoffAt(chunk) ==
  CalculatePayoffTime([ balance |-> args.balance, rate |-> args.rate,
                        payment |-> args.payment, chunk |-> chunk,
                        frequency |-> args.frequency ])

\* C22: with (months, interest) the payoff simulation at the candidate
\* chunk, the objective value is interest for goal interest,
\* months + interest / 10000 for goal time, and
\* 0.6 * (interest / balance) + 0.4 * (months / 360) for goal balanced and
\* for any other goal.  The values are compared in the scaled form the
\* objective is kept in: times 10000.00 for time, times 900 * balance for
\* balanced (balance > 0).
C22_ObjectiveValue ==
  (Returned("objective") /\ result.error = "" /\ args.balance > 0) =>
    LET p == PayoffAt(args.chunk)
    IN  CASE args.goal = "interest" -> result.value = p.interest
          [] args.goal = "time" ->
               result.value = 10000 * Dollar * p.months + p.interest
          [] OTHER ->
               result.value = 540 * p.interest + args.balance * p.months

C22_Witness ==
  /\ Returned("objective")
  /\ result.error = ""
  /\ args.goal = "other"
  /\ args.balance > 0
  /\ args.chunk > 0
  /\ PayoffAt(args.chunk).interest > 0
  /\ PayoffAt(args.chunk).months > 1

\* C23: for goal time the month count is primary.  For fixed balance, rate,
\* payment and frequency and two chunks c1, c2 >= 0: if months(c1) <
\* months(c2) then f(c1) < f(c2); the interest term orders only chunks
\* whose month counts are equal (rate >= 0).
C23_MonthsPrimary ==
  (/\ Returned("objective")
   /\ result.error = ""
   /\ args.goal = "time"
   /\ args.rate >= 0) =>
    \A c2 \in ObjectiveChunks :
      LET p1 == PayoffAt(args.chunk)
          p2 == PayoffAt(c2)
          f2 == ObjectiveFunction(c2, args).value
      IN  /\ p1.months < p2.months => result.value < f2
          /\ p1.months > p2.months => result.value > f2
          /\ p1.months = p2.months =>
               (result.value < f2 <=> p1.interest < p2.interest)

C23_Witness ==
  /\ Returned("objective")
  /\ result.error = ""
  /\ args.goal = "time"
  /\ args.rate > 0
  /\ \E c2 \in ObjectiveChunks :
       /\ PayoffAt(args.chunk).months < PayoffAt(c2).months
       /\ result.value < ObjectiveFunction(c2, args).value
  /\ \E c3 \in ObjectiveChunks :
       /\ PayoffAt(args.chunk).months = PayoffAt(c3).months
       /\ PayoffAt(args.chunk).interest < PayoffAt(c3).interest

\* The three penalties of the confidence score, in hundredths, for a chunk
\* and constraints: 0.2 at the extremes of a range max_chunk > min_chunk,
\* 0.3 above three months of cash flow, 0.1 when chunk / available_loc is
\* above 0.9 (a division by zero that does not raise gives an infinity of
\* the chunk's sign).
ExtremePenalty(chunk, c) ==
  IF /\ c.max_chunk # c.min_chunk
     /\ c.max_chunk > c.min_chunk
     /\ \/ 10 * (chunk - c.min_chunk) < c.max_chunk - c.min_chunk
        \/ 10 * (chunk - c.min_chunk) > 9 * (c.max_chunk - c.min_chunk)
  THEN 20 ELSE 0

CashflowPenalty(chunk, c) ==
  IF chunk > 3 * (c.monthly_income - c.monthly_expenses) THEN 30 ELSE 0

UtilizationPenalty(chunk, c) ==
  IF \/ c.available_loc > 0 /\ 10 * chunk > 9 * c.available_loc
     \/ c.available_loc < 0 /\ 10 * chunk < 9 * c.available_loc
     \/ c.available_loc = 0 /\ chunk > 0
  THEN 10 ELSE 0

\* C24: when the search converged, the confidence score that is returned
\* equals 1.0 minus 0.2 if the chunk's relative position in
\* [min_chunk, max_chunk] is below 0.1 or above 0.9 (no penalty when
\* max_chunk = min_chunk), minus 0.3 if chunk > 3 * (monthly_income -
\* monthly_expenses), minus 0.1 if chunk / available_loc > 0.9; the three
\* penalties add up independently.  It holds of a direct call and of the
\* score in an OptimizationResult, which is computed for the chunk the
\* search selected.
C24_ConvergedConfidence ==
  /\ (/\ Returned("confidence_score")
      /\ result.error = ""
      /\ args.convergence_success) =>
       result.value = 100 - ExtremePenalty(args.optimal_chunk, args.constraints)
                          - CashflowPenalty(args.optimal_chunk, args.constraints)
                          - UtilizationPenalty(args.optimal_chunk, args.constraints)
  /\ (/\ Returned("optimize")
      /\ result.error = ""
      /\ result.value.convergence_success) =>
       result.value.confidence_score
         = 100 - ExtremePenalty(locals.optimal_chunk, args.constraints)
               - CashflowPenalty(locals.optimal_chunk, args.constraints)
               - UtilizationPenalty(locals.optimal_chunk, args.constraints)

C24_Witness ==
  /\ Returned("confidence_score")
  /\ result.error = ""
  /\ args.convergence_success
  /\ args.constraints.max_chunk > args.constraints.min_chunk
  /\ ExtremePenalty(args.optimal_chunk, args.constraints) = 20
  /\ CashflowPenalty(args.optimal_chunk, args.constraints) = 30
  /\ UtilizationPenalty(args.optimal_chunk, args.constraints) = 10
  /\ result.value = 40

\* The strategy type of the returned result is the classification of a
\* chunk against the available line of credit.
ClassifiedBy(chunk) ==
  LET loc == args.constraints.available_loc
      strategy == result.value.strategy_type
  IN  /\ strategy \in { "conservative", "moderate", "aggressive" }
      /\ strategy = "conservative" <=> 10 * chunk < 3 * loc
      /\ strategy = "aggressive" <=>
           (10 * chunk > 7 * loc /\ ~(10 * chunk < 3 * loc))
      /\ strategy = "moderate" <=>
           (10 * chunk >= 3 * loc /\ 10 * chunk <= 7 * loc)

\* C25 as stated: the strategy type classifies the optimal_chunk field of
\* the result.
C25_StrategyOfReportedChunk ==
  (Returned("optimize") /\ result.error = "") =>
    ClassifiedBy(result.value.optimal_chunk)

\* C25: every OptimizationResult carries exactly one strategy type, and it
\* classifies the chunk the search selected, of which the result's
\* optimal_chunk is the rounding to 2 decimals: conservative if and only if
\* that chunk < 0.3 * available_loc, otherwise aggressive if and only if it
\* is > 0.7 * available_loc, and moderate otherwise (both thresholds
\* themselves classify as moderate).
C25_StrategyOfSelectedChunk ==
  (Returned("optimize") /\ result.error = "") =>
    /\ ClassifiedBy(locals.optimal_chunk)
    /\ IsRoundedTo(result.value.optimal_chunk, locals.optimal_chunk)

C25_Witness ==
  /\ Returned("optimize")
  /\ result.error = ""
  /\ result.value.strategy_type = "conservative"
  /\ 10 * result.value.optimal_chunk = 3 * args.constraints.available_loc
  /\ locals.optimal_chunk < result.value.optimal_chunk

\* A simulation that keeps a schedule is running or has returned.
HasSchedule ==
  /\ args.op \in { "amortization", "velocity" }
  /\ pc \in { "amortization", "velocity", "returned" }

\* The entries of a schedule are those of the months 1, 2, ..., n in this
\* order, with balances and applied chunks that are not negative.
WellFormedSchedule(schedule, n, with_chunks) ==
  /\ Len(schedule) = n
  /\ \A i \in 1..Len(schedule) :
       /\ schedule[i].month = i
       /\ schedule[i].balance >= 0
       /\ with_chunks => schedule[i].chunk_applied >= 0

\* C26: schedules are built append-only, one entry per simulated month.
\* While calculate_amortization and calculate_velocity_scenario run and
\* when they return, the entries' month fields are 1, 2, ..., month with no
\* gap or repeat, every entry has balance >= 0 and (velocity)
\* chunk_applied >= 0; a step of the loop appends one entry and changes no
\* earlier one; the returned schedule has total_months entries.
C26_AppendOnlySchedule ==
  /\ [](HasSchedule =>
          WellFormedSchedule(locals.schedule, locals.month,
                             args.op = "velocity"))
  /\ [](Returned("amortization") =>
          WellFormedSchedule(result.value.schedule,
                             result.value.months_to_payoff, FALSE))
  /\ [](Returned("velocity") =>
          WellFormedSchedule(result.value.schedule,
                             result.value.total_months, TRUE))
  /\ [][(HasSchedule /\ pc # "returned" /\ locals' # locals) =>
          /\ Len(locals'.schedule) = Len(locals.schedule) + 1
          /\ SubSeq(locals'.schedule, 1, Len(locals.schedule))
               = locals.schedule]_vars

C26_Witness ==
  /\ Returned("velocity")
  /\ args.frequency = "quarterly"
  /\ Len(result.value.schedule) >= 3
  /\ result.value.schedule[1].chunk_applied = 0
  /\ result.value.schedule[Len(result.value.schedule)].chunk_applied > 0
  /\ result.value.schedule[Len(result.value.schedule)].interest = 0
  /\ locals.broke

\* C27: the optimizer's private simulator is the same function as the
\* public one.  For every balance, rate, payment, chunk >= 0 and frequency
\* in {monthly, quarterly, annual}, _calculate_payoff_time returns exactly
\* the (total_months, total_interest) that calculate_velocity_scenario
\* returns for the same arguments.
C27_SameSimulator ==
  /\ (Returned("payoff_time") /\ args.chunk >= 0) =>
       /\ result.value.months = CalculateVelocityScenario(args).total_months
       /\ result.value.interest = CalculateVelocityScenario(args).total_interest
  /\ (Returned("velocity") /\ args.chunk >= 0) =>
       /\ result.value.total_months = CalculatePayoffTime(args).months
       /\ result.value.total_interest = CalculatePayoffTime(args).interest

C27_Witness ==
  /\ Returned("payoff_time")
  /\ args.chunk > 0
  /\ args.frequency = "quarterly"
  /\ locals.broke
  /\ result.value.months > 3
  /\ result.value.interest > 0
  /\ result.value.interest = CalculateVelocityScenario(args).total_interest

\* C28: the bounds the /chunk endpoint derives from a request and passes to
\* the optimizer are consistent: 0 <= min_chunk <= max_chunk.
C28_ConsistentBounds ==
  Returned("chunk_endpoint") =>
    /\ 0 <= args.call.constraints.min_chunk
    /\ args.call.constraints.min_chunk <= args.call.constraints.max_chunk

\* The sum of a field over the entries lo..hi of a schedule.
RECURSIVE SumOf(_, _, _, _)
SumOf(schedule, field, lo, hi) ==
  IF lo > hi THEN 0
  ELSE IF lo = hi THEN schedule[lo][field]
  ELSE LET mid == (lo + hi) \div 2
       IN  SumOf(schedule, field, lo, mid) + SumOf(schedule, field, mid + 1, hi)

\* principal + chunk_applied, summed over all entries of the returned
\* schedule.
PaidDown ==
  LET schedule == result.value.schedule
  IN  SumOf(schedule, "principal", 1, Len(schedule))
        + SumOf(schedule, "chunk_applied", 1, Len(schedule))

\* The chunk of the terminal entry of a schedule that a chunk cleared: the
\* entry carries it as its principal and as its chunk_applied.
TerminalChunk ==
  IF locals.broke
  THEN result.value.schedule[Len(result.value.schedule)].chunk_applied
  ELSE 0

\* C29 as stated: the initial balance equals the sum over all entries of
\* (principal + chunk_applied) plus the balance remaining after the last
\* month, up to the 0.01 payoff tolerance.
C29_BalanceAccounting ==
  Returned("velocity") =>
    Abs(args.balance - (PaidDown + locals.balance)) <= PayoffTolerance

\* C29: total_chunk_payments equals the sum of chunk_applied over all
\* entries, and the initial balance equals the sum over all entries of
\* (principal + chunk_applied), the chunk of a terminal entry counted once,
\* plus the balance remaining after the last month; the balance field of
\* the last entry is that remaining balance up to the 0.01 payoff
\* tolerance.
C29_BalanceAccountedOnce ==
  Returned("velocity") =>
    LET schedule == result.value.schedule
    IN  /\ result.value.total_chunk_payments
             = SumOf(schedule, "chunk_applied", 1, Len(schedule))
        /\ args.balance = PaidDown - TerminalChunk + locals.balance
        /\ Len(schedule) > 0 =>
             Abs(schedule[Len(schedule)].balance - locals.balance)
               <= PayoffTolerance

C29_Witness ==
  /\ Returned("velocity")
  /\ locals.broke
  /\ Len(result.value.schedule) >= 3
  /\ TerminalChunk > 0
  /\ TerminalChunk < args.chunk
  /\ PaidDown = args.balance + TerminalChunk

\* C30: sensitivity_analysis returns a complete report (interest_rate,
\* chunk_amount and monthly_payment, each with months_change,
\* interest_change, months_pct and interest_pct) for every valid input
\* (balance > 0, rate >= 0, payment > 0, optimal_chunk >= 0, any of the
\* three frequencies); it never fails on such input.
C30_SensitivityNeverFails ==
  (/\ Returned("sensitivity")
   /\ args.balance > 0
   /\ args.rate >= 0
   /\ args.payment > 0
   /\ args.chunk >= 0
   /\ args.frequency \in { "monthly", "quarterly", "annual" }) =>
    /\ result.error = ""
    /\ Len(result.value) = 3
    /\ \A i \in 1..3 :
         /\ result.value[i].parameter = SensitivityParameters[i]
         /\ DOMAIN result.value[i]
              = { "raised", "parameter", "months_change", "interest_change",
                  "months_pct", "interest_pct" }

====
